---- MODULE Spec2Model ----
(***************************************************************************)
(* A model of duit's input interpretation pipeline:                        *)
(*   src/src/lib/services/parser.ts       parseAmount, parseInput          *)
(*   src/src/lib/services/categorizer.ts  categorize, categorizeWithFallback*)
(*   src/src/lib/services/gemini.ts       parseCategory, categorizeWithGemini*)
(*   src/src/lib/db/index.ts              getCategoryMapping, setCategoryMapping*)
(*                                                                         *)
(* A JavaScript string is a sequence of one-character strings.  A number   *)
(* returned by parseAmount is a record [kind, num, den] standing for       *)
(* num/den, and null is [kind |-> "null"].                                 *)
(***************************************************************************)
EXTENDS Integers, Sequences, FiniteSets, TLC

(***************************************************************************)
(* Characters and the String.prototype methods the code uses.              *)
(***************************************************************************)
Digit == {"0", "1", "2", "3", "4", "5", "6", "7", "8", "9"}

Upper ==
  {"A", "B", "C", "D", "E", "F", "G", "H", "I", "J", "K", "L", "M",
   "N", "O", "P", "Q", "R", "S", "T", "U", "V", "W", "X", "Y", "Z"}

Lower ==
  {"a", "b", "c", "d", "e", "f", "g", "h", "i", "j", "k", "l", "m",
   "n", "o", "p", "q", "r", "s", "t", "u", "v", "w", "x", "y", "z"}

\* the characters matched by \s (and removed by trim) that the model's inputs use
Space == {" ", "\t"}

\* the characters matched by [.,]
Separator == {".", ","}

\* the characters matched by [,.\-:]
Punct == {",", ".", "-", ":"}

\* the characters matched by \w, between which \b finds no boundary
WordChar == Digit \cup Upper \cup Lower \cup {"_"}

DigitVal(c) ==
  CASE c = "0" -> 0 [] c = "1" -> 1 [] c = "2" -> 2 [] c = "3" -> 3
    [] c = "4" -> 4 [] c = "5" -> 5 [] c = "6" -> 6 [] c = "7" -> 7
    [] c = "8" -> 8 [] c = "9" -> 9

LowerOf(c) ==
  CASE c = "A" -> "a" [] c = "B" -> "b" [] c = "C" -> "c" [] c = "D" -> "d"
    [] c = "E" -> "e" [] c = "F" -> "f" [] c = "G" -> "g" [] c = "H" -> "h"
    [] c = "I" -> "i" [] c = "J" -> "j" [] c = "K" -> "k" [] c = "L" -> "l"
    [] c = "M" -> "m" [] c = "N" -> "n" [] c = "O" -> "o" [] c = "P" -> "p"
    [] c = "Q" -> "q" [] c = "R" -> "r" [] c = "S" -> "s" [] c = "T" -> "t"
    [] c = "U" -> "u" [] c = "V" -> "v" [] c = "W" -> "w" [] c = "X" -> "x"
    [] c = "Y" -> "y" [] c = "Z" -> "z" [] OTHER -> c

\* String.prototype.toLowerCase
toLowerCase(s) == [i \in 1..Len(s) |-> LowerOf(s[i])]

\* s.slice(from - 1): the characters of s from position from (1-based) on
DropTo(s, from) == SubSeq(s, from, Len(s))

\* the length of the longest prefix of s made of characters of class
RECURSIVE RunLen(_, _)
RunLen(s, class) ==
  IF s # <<>> /\ Head(s) \in class THEN 1 + RunLen(Tail(s), class) ELSE 0

\* the length of the longest suffix of s made of characters of class
RECURSIVE RunLenEnd(_, _)
RunLenEnd(s, class) ==
  IF s # <<>> /\ s[Len(s)] \in class
  THEN 1 + RunLenEnd(SubSeq(s, 1, Len(s) - 1), class)
  ELSE 0

\* String.prototype.trim
trim(s) ==
  LET a == RunLen(s, Space)
  IN  IF a = Len(s) THEN <<>>
      ELSE SubSeq(s, a + 1, Len(s) - RunLenEnd(s, Space))

\* s.startsWith(t, at - 1)
StartsWithAt(s, t, at) ==
  /\ at + Len(t) - 1 <= Len(s)
  /\ SubSeq(s, at, at + Len(t) - 1) = t

\* s.indexOf(t) + 1, and 0 when t does not occur in s
IndexOf(s, t) ==
  LET hits == {i \in 1..(Len(s) + 1) : StartsWithAt(s, t, i)}
  IN  IF hits = {} THEN 0 ELSE CHOOSE i \in hits : \A j \in hits : i <= j

\* s.includes(t)
includes(s, t) == IndexOf(s, t) # 0

\* the value of a digit string that is known to be short
RECURSIVE parseIntDigits(_)
parseIntDigits(s) ==
  IF s = <<>> THEN 0
  ELSE 10 * parseIntDigits(SubSeq(s, 1, Len(s) - 1)) + DigitVal(s[Len(s)])

\* Math.pow(10, n)
RECURSIVE Pow10(_)
Pow10(n) == IF n = 0 THEN 1 ELSE 10 * Pow10(n - 1)

(***************************************************************************)
(* JavaScript numbers.  parseAmount computes (whole + decimal / 10^n) *    *)
(* multiplier in IEEE 754 binary64 and rounds with Math.round, so the      *)
(* model carries out the same roundings.  A non-negative double is         *)
(* [limbs, frac]: the integer whose little-endian base-1024 digits are     *)
(* limbs, divided by 2^frac.  (Only values far from the subnormal and the  *)
(* overflow range occur.)  Integers, which an amount in rupiah takes past  *)
(* 2^31, are such sequences of limbs too.                                  *)
(***************************************************************************)
MantissaBits == 53

LimbBits == 10

LimbBase == 2 ^ LimbBits

Zeros(n) == [i \in 1..n |-> 0]

\* limbs without its most significant zeros
StripTop(b) ==
  LET nz == {i \in 1..Len(b) : b[i] # 0}
  IN  IF nz = {} THEN <<>>
      ELSE SubSeq(b, 1, CHOOSE i \in nz : \A j \in nz : j <= i)

RECURSIVE LimbsOf(_)
LimbsOf(n) == IF n = 0 THEN <<>> ELSE <<n % LimbBase>> \o LimbsOf(n \div LimbBase)

RECURSIVE IntOf(_)
IntOf(b) == IF b = <<>> THEN 0 ELSE b[1] + LimbBase * IntOf(Tail(b))

\* the number of binary digits of the integer limbs
BitLen(b) ==
  LET s == StripTop(b)
  IN  IF s = <<>> THEN 0
      ELSE LimbBits * (Len(s) - 1)
             + (CHOOSE k \in 1..LimbBits : 2 ^ (k - 1) <= s[Len(s)] /\ s[Len(s)] < 2 ^ k)

\* binary digit j (0 is the least significant) of the integer limbs
BitAt(b, j) ==
  IF j < 0 \/ j \div LimbBits + 1 > Len(b) THEN 0
  ELSE (b[j \div LimbBits + 1] \div 2 ^ (j % LimbBits)) % 2

\* limbs * m + carry for a small integer m
RECURSIVE MulLimbs(_, _, _)
MulLimbs(b, m, carry) ==
  IF b = <<>> THEN LimbsOf(carry)
  ELSE LET v == b[1] * m + carry
       IN  <<v % LimbBase>> \o MulLimbs(Tail(b), m, v \div LimbBase)

RECURSIVE AddLimbs(_, _, _)
AddLimbs(a, b, carry) ==
  IF a = <<>> /\ b = <<>> THEN LimbsOf(carry)
  ELSE LET v == (IF a = <<>> THEN 0 ELSE a[1]) + (IF b = <<>> THEN 0 ELSE b[1]) + carry
       IN  <<v % LimbBase>> \o AddLimbs(IF a = <<>> THEN <<>> ELSE Tail(a),
                                        IF b = <<>> THEN <<>> ELSE Tail(b),
                                        v \div LimbBase)

\* limbs * 2^k
ShiftLeft(b, k) == Zeros(k \div LimbBits) \o MulLimbs(b, 2 ^ (k % LimbBits), 0)

\* limbs \div 2^k
ShiftRight(b, k) ==
  LET q == k \div LimbBits
      r == k % LimbBits
      at(i) == IF i <= Len(b) THEN b[i] ELSE 0
  IN  StripTop([i \in 1..(IF Len(b) > q THEN Len(b) - q ELSE 0) |->
                  at(i + q) \div 2 ^ r + (at(i + q + 1) % 2 ^ r) * 2 ^ (LimbBits - r)])

\* the double nearest to the exact value [limbs, frac] (plus a non-zero tail below
\* its last binary digit when sticky), ties to even
RoundToDouble(limbs, frac, sticky) ==
  LET drop == BitLen(limbs) - MantissaBits
  IN  IF drop <= 0 THEN [limbs |-> StripTop(limbs), frac |-> frac]
      ELSE LET kept == ShiftRight(limbs, drop)
               rest == sticky \/ \E j \in 0..(drop - 2) : BitAt(limbs, j) = 1
               up == BitAt(limbs, drop - 1) = 1 /\ (rest \/ BitAt(kept, 0) = 1)
           IN  [limbs |-> IF up THEN AddLimbs(kept, <<1>>, 0) ELSE kept,
                frac |-> frac - drop]

\* k more binary digits of the quotient r / d: [q, r] with r * 2^k = q * d + r'
RECURSIVE DivStep(_, _, _, _)
DivStep(r, d, k, q) ==
  IF k = 0 THEN [q |-> q, r |-> r]
  ELSE LET bit == IF 2 * r >= d THEN 1 ELSE 0
       IN  DivStep(2 * r - bit * d, d, k - 1, 2 * q + bit)

\* long division r / d, one limb of the quotient at a time, until the quotient has
\* more significant binary digits than a double keeps
RECURSIVE DivLimbs(_, _, _, _)
DivLimbs(r, d, limbs, n) ==
  IF r = 0 \/ BitLen(limbs) > MantissaBits + 1
  THEN [limbs |-> limbs, frac |-> LimbBits * n, sticky |-> r # 0]
  ELSE LET step == DivStep(r, d, LimbBits, 0)
       IN  DivLimbs(step.r, d, <<step.q>> \o limbs, n + 1)

\* a / d for integers a >= 0, d > 0
DoubleDiv(a, d) ==
  LET q == DivLimbs(a % d, d, LimbsOf(a \div d), 0)
  IN  RoundToDouble(q.limbs, q.frac, q.sticky)

\* w + x for an integer w >= 0 (its limbs) and a double x
DoubleAdd(w, x) ==
  RoundToDouble(AddLimbs(ShiftLeft(w, x.frac), x.limbs, 0), x.frac, FALSE)

\* x * m for a double x and an integer m >= 0
DoubleMul(x, m) == RoundToDouble(MulLimbs(x.limbs, m, 0), x.frac, FALSE)

\* Math.round(x) for a double x >= 0: the nearest integer, a tie going up
MathRound(x) ==
  IF x.frac <= 0 THEN ShiftLeft(x.limbs, 0 - x.frac)
  ELSE AddLimbs(ShiftRight(x.limbs, x.frac), LimbsOf(BitAt(x.limbs, x.frac - 1)), 0)

\* parseInt(s, 10) of a digit string
RECURSIVE parseInt(_)
parseInt(s) ==
  IF s = <<>> THEN <<>>
  ELSE StripTop(MulLimbs(parseInt(SubSeq(s, 1, Len(s) - 1)), 10, DigitVal(s[Len(s)])))

RECURSIVE GCD(_, _)
GCD(a, b) == IF b = 0 THEN a ELSE GCD(b, a % b)

Null == [kind |-> "null"]

\* the integer whose limbs are num
Integer(num) == [kind |-> "num", num |-> num, den |-> 1]

\* the number num / den (small integers, den > 0), in lowest terms
Decimal(num, den) ==
  LET g == IF num = 0 THEN den ELSE GCD(num, den)
  IN  [kind |-> "num", num |-> LimbsOf(num \div g), den |-> den \div g]

IsInteger(r) == r.kind = "num" /\ r.den = 1

IsPositive(r) == r.kind = "num" /\ r.num # <<>>

\* a value that is not a string (null, undefined)
NonString == <<"null">>

(***************************************************************************)
(* parseAmount                                                             *)
(***************************************************************************)
\* cleaned.match(/^(\d+)([.,](\d+))?\s*(<suffixes>)$/): [ok, whole, frac], where
\* whole is group 1 and frac is group 3 (<<>> when the group did not take part)
SuffixMatch(cleaned, suffixes) ==
  LET a == RunLen(cleaned, Digit)
      afterWhole == DropTo(cleaned, a + 1)
      hasFrac == /\ Len(afterWhole) >= 2
                 /\ afterWhole[1] \in Separator
                 /\ afterWhole[2] \in Digit
      b == IF hasFrac THEN RunLen(Tail(afterWhole), Digit) ELSE 0
      afterFrac == IF hasFrac THEN DropTo(afterWhole, b + 2) ELSE afterWhole
      rest == DropTo(afterFrac, RunLen(afterFrac, Space) + 1)
  IN  [ok |-> a > 0 /\ rest \in suffixes,
       whole |-> SubSeq(cleaned, 1, a),
       frac |-> IF hasFrac THEN SubSeq(afterWhole, 2, b + 1) ELSE <<>>]

jutaMatch(cleaned) == SuffixMatch(cleaned, {<<"j", "t">>, <<"j", "u", "t", "a">>})

ribuMatch(cleaned) ==
  SuffixMatch(cleaned, {<<"r", "b">>, <<"r", "i", "b", "u">>, <<"k">>})

\* SuffixAmount without Math.round: a fraction finer than the multiplier stays
SuffixAmountUnrounded(m, multiplier) ==
  IF m.frac # <<>> /\ Pow10(Len(m.frac)) > multiplier
  THEN Decimal(parseIntDigits(m.whole) * Pow10(Len(m.frac)) + parseIntDigits(m.frac),
               Pow10(Len(m.frac)) \div multiplier)
  ELSE Integer(MathRound(DoubleMul(
         DoubleAdd(parseInt(m.whole),
                   DoubleDiv(IF m.frac # <<>> THEN parseIntDigits(m.frac) ELSE 0,
                             IF m.frac # <<>> THEN Pow10(Len(m.frac)) ELSE 1)),
         multiplier)))

\* SuffixAmount scaling the fraction by the digits of its value, not of its text:
\* the leading zeros of "05" are lost and 1.05 is read as 1.5
SuffixAmountLeadingZerosLost(m, multiplier) ==
  LET wholePart == parseInt(m.whole)
      decimalPart == IF m.frac # <<>> THEN parseIntDigits(m.frac) ELSE 0
      significant == DropTo(m.frac, RunLen(m.frac, {"0"}) + 1)
      decimalMultiplier == IF m.frac # <<>> THEN Pow10(Len(significant)) ELSE 1
      amount == DoubleMul(DoubleAdd(wholePart, DoubleDiv(decimalPart, decimalMultiplier)),
                          multiplier)
  IN  Integer(MathRound(amount))

\* Math.round((wholePart + decimalPart / decimalMultiplier) * multiplier)
SuffixAmount(m, multiplier) ==
  LET wholePart == parseInt(m.whole)
      decimalPart == IF m.frac # <<>> THEN parseIntDigits(m.frac) ELSE 0
      decimalMultiplier == IF m.frac # <<>> THEN Pow10(Len(m.frac)) ELSE 1
      amount == DoubleMul(DoubleAdd(wholePart, DoubleDiv(decimalPart, decimalMultiplier)),
                          multiplier)
  IN  Integer(MathRound(amount))

\* r is one or more groups of a separator and exactly three digits
RECURSIVE IsGroups(_)
IsGroups(r) ==
  /\ Len(r) >= 4
  /\ r[1] \in Separator
  /\ \A i \in 2..4 : r[i] \in Digit
  /\ (Len(r) = 4 \/ IsGroups(DropTo(r, 5)))

\* thousandSepMatch without the + of the group: one group only
thousandSepMatchOneGroup(cleaned) ==
  LET a == RunLen(cleaned, Digit)
  IN  a \in 1..3 /\ Len(cleaned) = a + 4 /\ IsGroups(DropTo(cleaned, a + 1))

\* cleaned.match(/^(\d{1,3})([.,]\d{3})+$/)
thousandSepMatch(cleaned) ==
  LET a == RunLen(cleaned, Digit)
  IN  a \in 1..3 /\ IsGroups(DropTo(cleaned, a + 1))

\* cleaned.replace(/[.,]/g, '')
StripSeparators(cleaned) == SelectSeq(cleaned, LAMBDA c : c \notin Separator)

\* cleaned.match(/^(\d+)$/)
plainMatch(cleaned) == cleaned # <<>> /\ RunLen(cleaned, Digit) = Len(cleaned)

\* cleaned.match(/^(\d+)[.,](\d+)$/): [ok, whole, afterSep]
decimalMatch(cleaned) ==
  LET a == RunLen(cleaned, Digit)
      rest == DropTo(cleaned, a + 2)
  IN  [ok |-> /\ a > 0
              /\ Len(cleaned) >= a + 2
              /\ cleaned[a + 1] \in Separator
              /\ RunLen(rest, Digit) = Len(rest),
       whole |-> SubSeq(cleaned, 1, a),
       afterSep |-> rest]

parseAmount(input) ==
  IF input = NonString \/ input = <<>> THEN Null
  ELSE LET cleaned == toLowerCase(trim(input))
           jt == jutaMatch(cleaned)
           rb == ribuMatch(cleaned)
           dec == decimalMatch(cleaned)
       IN  IF cleaned = <<>> THEN Null
           ELSE IF jt.ok THEN SuffixAmount(jt, 1000000)
           ELSE IF rb.ok THEN SuffixAmount(rb, 1000)
           ELSE IF thousandSepMatch(cleaned)
             THEN Integer(parseInt(StripSeparators(cleaned)))
           ELSE IF plainMatch(cleaned) THEN Integer(parseInt(cleaned))
           ELSE IF dec.ok
             THEN IF Len(dec.afterSep) < 3
                  THEN Decimal(parseIntDigits(dec.whole) * Pow10(Len(dec.afterSep))
                                 + parseIntDigits(dec.afterSep),
                               Pow10(Len(dec.afterSep)))
                  ELSE Integer(parseInt(StripSeparators(cleaned)))
           ELSE Null

(***************************************************************************)
(* parseInput                                                              *)
(***************************************************************************)
\* The length of the match of /(\d+[.,]?\d*)\s*(<suffixes>)/i that starts at position
\* at of s, and 0 when there is none.  Every quantifier is greedy, and giving back a
\* character never helps: the suffix would have to start at a digit, a separator or
\* a whitespace character.
SuffixTokenAt(s, at, suffixes) ==
  LET t == DropTo(s, at)
      a == RunLen(t, Digit)
      afterWhole == DropTo(t, a + 1)
      sep == IF afterWhole # <<>> /\ afterWhole[1] \in Separator THEN 1 ELSE 0
      afterSep == DropTo(afterWhole, sep + 1)
      b == RunLen(afterSep, Digit)
      afterFrac == DropTo(afterSep, b + 1)
      w == RunLen(afterFrac, Space)
      rest == toLowerCase(DropTo(afterFrac, w + 1))
      hits == {x \in suffixes : StartsWithAt(rest, x, 1)}
  IN  IF a = 0 \/ hits = {} THEN 0
      ELSE a + sep + b + w + Len(CHOOSE x \in hits : TRUE)

\* /(\d+[.,]?\d*)\s*(jt|juta)/gi
jutaPattern(s, at) == SuffixTokenAt(s, at, {<<"j", "t">>, <<"j", "u", "t", "a">>})

\* /(\d+[.,]?\d*)\s*(rb|ribu|k)/gi
ribuPattern(s, at) ==
  SuffixTokenAt(s, at, {<<"r", "b">>, <<"r", "i", "b", "u">>, <<"k">>})

\* the number of leading groups of a separator and three digits in r
RECURSIVE NumGroups(_)
NumGroups(r) ==
  IF Len(r) >= 4 /\ r[1] \in Separator /\ \A i \in 2..4 : r[i] \in Digit
  THEN 1 + NumGroups(DropTo(r, 5))
  ELSE 0

\* /(\d{1,3}(?:[.,]\d{3})+)/g
thousandSepPattern(s, at) ==
  LET t == DropTo(s, at)
      a == RunLen(t, Digit)
      g == NumGroups(DropTo(t, a + 1))
  IN  IF a \in 1..3 /\ g >= 1 THEN a + 4 * g ELSE 0

\* /(\d{2,})/g: plainPattern without its word boundaries
plainPatternNoBoundary(s, at) ==
  LET a == RunLen(DropTo(s, at), Digit)
  IN  IF a >= 2 THEN a ELSE 0

\* /\b(\d{2,})\b/g
plainPattern(s, at) ==
  LET a == RunLen(DropTo(s, at), Digit)
  IN  IF /\ a >= 2
         /\ (at = 1 \/ s[at - 1] \notin WordChar)
         /\ (at + a > Len(s) \/ s[at + a] \notin WordChar)
      THEN a ELSE 0

\* trimmed.match(pattern): [found, at, str], the leftmost match (matches[0]);
\* lengths[i] is the length of the match of the pattern at position i, 0 for none
FirstMatch(s, lengths) ==
  LET starts == {i \in 1..Len(s) : lengths[i] > 0}
      at == CHOOSE i \in starts : \A j \in starts : i <= j
  IN  IF starts = {} THEN [found |-> FALSE, at |-> 0, str |-> <<>>]
      ELSE [found |-> TRUE, at |-> at, str |-> SubSeq(s, at, at + lengths[at] - 1)]

\* the loop over amountPatterns with position before priority: the leftmost match
\* of any pattern decides, the earlier pattern among those that start there
FindAmountLeftmost(trimmed) ==
  LET jt == FirstMatch(trimmed, [i \in 1..Len(trimmed) |-> jutaPattern(trimmed, i)])
      rb == FirstMatch(trimmed, [i \in 1..Len(trimmed) |-> ribuPattern(trimmed, i)])
      ts == FirstMatch(trimmed, [i \in 1..Len(trimmed) |-> thousandSepPattern(trimmed, i)])
      pl == FirstMatch(trimmed, [i \in 1..Len(trimmed) |-> plainPattern(trimmed, i)])
      found == {m \in {jt, rb, ts, pl} : m.found}
      Leftmost(m) == \A n \in found : m.at <= n.at
  IN  IF jt.found /\ Leftmost(jt) THEN jt
      ELSE IF rb.found /\ Leftmost(rb) THEN rb
      ELSE IF ts.found /\ Leftmost(ts) THEN ts
      ELSE pl

\* the loop over amountPatterns: the first pattern that matches decides
FindAmount(trimmed) ==
  LET jt == FirstMatch(trimmed, [i \in 1..Len(trimmed) |-> jutaPattern(trimmed, i)])
      rb == FirstMatch(trimmed, [i \in 1..Len(trimmed) |-> ribuPattern(trimmed, i)])
      ts == FirstMatch(trimmed, [i \in 1..Len(trimmed) |-> thousandSepPattern(trimmed, i)])
      pl == FirstMatch(trimmed, [i \in 1..Len(trimmed) |-> plainPattern(trimmed, i)])
  IN  IF jt.found THEN jt ELSE IF rb.found THEN rb ELSE IF ts.found THEN ts ELSE pl

\* s.replace(t, ''): the first occurrence of the text t is removed
RemoveFirst(s, t) ==
  LET i == IndexOf(s, t)
  IN  IF i = 0 THEN s ELSE SubSeq(s, 1, i - 1) \o DropTo(s, i + Len(t))

\* s.replace(/\s+/g, ' ')
RECURSIVE CollapseSpaces(_)
CollapseSpaces(s) ==
  IF s = <<>> THEN <<>>
  ELSE IF Head(s) \in Space
    THEN <<" ">> \o CollapseSpaces(DropTo(s, RunLen(s, Space) + 1))
    ELSE <<Head(s)>> \o CollapseSpaces(Tail(s))

\* s.replace(/^[,.\-:]+|[,.\-:]+$/g, '')
StripPunct(s) ==
  LET a == RunLen(s, Punct)
  IN  IF a = Len(s) THEN <<>>
      ELSE SubSeq(s, a + 1, Len(s) - RunLenEnd(s, Punct))

\* the description: the input without the amount text, cleaned
CleanDescription(trimmed, amountStr) ==
  trim(StripPunct(CollapseSpaces(trim(RemoveFirst(trimmed, amountStr)))))

\* AmountRejected with < for <=: a zero amount is let through
AmountRejectedNegativeOnly(amount) == amount.kind = "null"

\* amount === null || amount <= 0
AmountRejected(amount) == amount.kind = "null" \/ ~IsPositive(amount)

parseInput(input) ==
  IF input = NonString \/ input = <<>> THEN Null
  ELSE LET trimmed == trim(input)
           m == FindAmount(trimmed)
           amount == parseAmount(m.str)
           description == CleanDescription(trimmed, m.str)
       IN  IF trimmed = <<>> THEN Null
           ELSE IF ~m.found THEN Null
           ELSE IF AmountRejected(amount) THEN Null
           ELSE IF description = <<>> THEN Null
           ELSE [kind |-> "parsed", description |-> description, amount |-> amount]

(***************************************************************************)
(* categorizer.ts: the static keyword table and the matching tiers.        *)
(* A value a categorizer returns is null, a string, or an object; a        *)
(* category is a string.                                                   *)
(***************************************************************************)
Str(text) == [kind |-> "string", text |-> text]

\* a value that is neither null nor a string: what a property inherited from
\* Object.prototype holds
Obj(name) == [kind |-> "object", name |-> name]

\* ToBoolean: null and the empty string are falsy
Truthy(v) == v.kind # "null" /\ (v.kind = "string" => v.text # <<>>)

food == <<"f", "o", "o", "d">>
transport == <<"t", "r", "a", "n", "s", "p", "o", "r", "t">>
bills == <<"b", "i", "l", "l", "s">>
shopping == <<"s", "h", "o", "p", "p", "i", "n", "g">>
entertainment == <<"e", "n", "t", "e", "r", "t", "a", "i", "n", "m", "e", "n", "t">>
income == <<"i", "n", "c", "o", "m", "e">>
other == <<"o", "t", "h", "e", "r">>

VALID_CATEGORIES == <<food, transport, bills, shopping, entertainment, income, other>>

\* type Category
Category == {food, transport, bills, shopping, entertainment, income, other}

\* the own properties of DEFAULT_KEYWORDS, in the order of the literal
DEFAULT_KEYWORDS ==
  << [keyword |-> <<"b", "a", "k", "s", "o">>, category |-> food],
     [keyword |-> <<"m", "i", "e">>, category |-> food],
     [keyword |-> <<"n", "a", "s", "i">>, category |-> food],
     [keyword |-> <<"k", "o", "p", "i">>, category |-> food],
     [keyword |-> <<"g", "o", "f", "o", "o", "d">>, category |-> food],
     [keyword |-> <<"g", "r", "a", "b", "f", "o", "o", "d">>, category |-> food],
     [keyword |-> <<"m", "a", "k", "a", "n">>, category |-> food],
     [keyword |-> <<"a", "y", "a", "m">>, category |-> food],
     [keyword |-> <<"s", "a", "t", "e">>, category |-> food],
     [keyword |-> <<"s", "o", "t", "o">>, category |-> food],
     [keyword |-> <<"w", "a", "r", "u", "n", "g">>, category |-> food],
     [keyword |-> <<"r", "e", "s", "t", "o">>, category |-> food],
     [keyword |-> <<"r", "e", "s", "t", "a", "u", "r", "a", "n", "t">>, category |-> food],
     [keyword |-> <<"c", "a", "f", "e">>, category |-> food],
     [keyword |-> <<"s", "t", "a", "r", "b", "u", "c", "k", "s">>, category |-> food],
     [keyword |-> <<"m", "c", "d", "o", "n", "a", "l", "d", "s">>, category |-> food],
     [keyword |-> <<"k", "f", "c">>, category |-> food],
     [keyword |-> <<"p", "i", "z", "z", "a">>, category |-> food],
     [keyword |-> <<"b", "u", "r", "g", "e", "r">>, category |-> food],
     [keyword |-> <<"i", "n", "d", "o", "m", "i", "e">>, category |-> food],
     [keyword |-> <<"s", "n", "a", "c", "k">>, category |-> food],
     [keyword |-> <<"g", "r", "a", "b">>, category |-> transport],
     [keyword |-> <<"g", "o", "j", "e", "k">>, category |-> transport],
     [keyword |-> <<"b", "e", "n", "s", "i", "n">>, category |-> transport],
     [keyword |-> <<"p", "a", "r", "k", "i", "r">>, category |-> transport],
     [keyword |-> <<"t", "o", "l">>, category |-> transport],
     [keyword |-> <<"o", "j", "o", "l">>, category |-> transport],
     [keyword |-> <<"o", "j", "e", "k">>, category |-> transport],
     [keyword |-> <<"t", "a", "x", "i">>, category |-> transport],
     [keyword |-> <<"t", "a", "k", "s", "i">>, category |-> transport],
     [keyword |-> <<"b", "u", "s">>, category |-> transport],
     [keyword |-> <<"k", "e", "r", "e", "t", "a">>, category |-> transport],
     [keyword |-> <<"m", "r", "t">>, category |-> transport],
     [keyword |-> <<"l", "r", "t">>, category |-> transport],
     [keyword |-> <<"t", "r", "a", "n", "s", "j", "a", "k", "a", "r", "t", "a">>, category |-> transport],
     [keyword |-> <<"a", "n", "g", "k", "o", "t">>, category |-> transport],
     [keyword |-> <<"b", "b", "m">>, category |-> transport],
     [keyword |-> <<"p", "e", "r", "t", "a", "m", "i", "n", "a">>, category |-> transport],
     [keyword |-> <<"s", "h", "e", "l", "l">>, category |-> transport],
     [keyword |-> <<"l", "i", "s", "t", "r", "i", "k">>, category |-> bills],
     [keyword |-> <<"p", "l", "n">>, category |-> bills],
     [keyword |-> <<"w", "i", "f", "i">>, category |-> bills],
     [keyword |-> <<"p", "u", "l", "s", "a">>, category |-> bills],
     [keyword |-> <<"s", "e", "w", "a">>, category |-> bills],
     [keyword |-> <<"k", "o", "s">>, category |-> bills],
     [keyword |-> <<"k", "o", "n", "t", "r", "a", "k", "a", "n">>, category |-> bills],
     [keyword |-> <<"p", "d", "a", "m">>, category |-> bills],
     [keyword |-> <<"a", "i", "r">>, category |-> bills],
     [keyword |-> <<"i", "n", "t", "e", "r", "n", "e", "t">>, category |-> bills],
     [keyword |-> <<"i", "n", "d", "i", "h", "o", "m", "e">>, category |-> bills],
     [keyword |-> <<"b", "i", "z", "n", "e", "t">>, category |-> bills],
     [keyword |-> <<"t", "e", "l", "k", "o", "m", "s", "e", "l">>, category |-> bills],
     [keyword |-> <<"x", "l">>, category |-> bills],
     [keyword |-> <<"i", "n", "d", "o", "s", "a", "t">>, category |-> bills],
     [keyword |-> <<"t", "h", "r", "e", "e">>, category |-> bills],
     [keyword |-> <<"t", "r", "i">>, category |-> bills],
     [keyword |-> <<"s", "h", "o", "p", "e", "e">>, category |-> shopping],
     [keyword |-> <<"t", "o", "k", "o", "p", "e", "d", "i", "a">>, category |-> shopping],
     [keyword |-> <<"b", "a", "j", "u">>, category |-> shopping],
     [keyword |-> <<"i", "n", "d", "o", "m", "a", "r", "e", "t">>, category |-> shopping],
     [keyword |-> <<"a", "l", "f", "a", "m", "a", "r", "t">>, category |-> shopping],
     [keyword |-> <<"l", "a", "z", "a", "d", "a">>, category |-> shopping],
     [keyword |-> <<"b", "u", "k", "a", "l", "a", "p", "a", "k">>, category |-> shopping],
     [keyword |-> <<"b", "l", "i", "b", "l", "i">>, category |-> shopping],
     [keyword |-> <<"z", "a", "l", "o", "r", "a">>, category |-> shopping],
     [keyword |-> <<"u", "n", "i", "q", "l", "o">>, category |-> shopping],
     [keyword |-> <<"h", "m">>, category |-> shopping],
     [keyword |-> <<"z", "a", "r", "a">>, category |-> shopping],
     [keyword |-> <<"s", "e", "p", "a", "t", "u">>, category |-> shopping],
     [keyword |-> <<"c", "e", "l", "a", "n", "a">>, category |-> shopping],
     [keyword |-> <<"k", "a", "o", "s">>, category |-> shopping],
     [keyword |-> <<"s", "u", "p", "e", "r", "m", "a", "r", "k", "e", "t">>, category |-> shopping],
     [keyword |-> <<"m", "a", "l", "l">>, category |-> shopping],
     [keyword |-> <<"n", "e", "t", "f", "l", "i", "x">>, category |-> entertainment],
     [keyword |-> <<"s", "p", "o", "t", "i", "f", "y">>, category |-> entertainment],
     [keyword |-> <<"b", "i", "o", "s", "k", "o", "p">>, category |-> entertainment],
     [keyword |-> <<"g", "a", "m", "e">>, category |-> entertainment],
     [keyword |-> <<"c", "i", "n", "e", "m", "a">>, category |-> entertainment],
     [keyword |-> <<"x", "x", "i">>, category |-> entertainment],
     [keyword |-> <<"c", "g", "v">>, category |-> entertainment],
     [keyword |-> <<"y", "o", "u", "t", "u", "b", "e">>, category |-> entertainment],
     [keyword |-> <<"d", "i", "s", "n", "e", "y">>, category |-> entertainment],
     [keyword |-> <<"s", "t", "e", "a", "m">>, category |-> entertainment],
     [keyword |-> <<"p", "l", "a", "y", "s", "t", "a", "t", "i", "o", "n">>, category |-> entertainment],
     [keyword |-> <<"x", "b", "o", "x">>, category |-> entertainment],
     [keyword |-> <<"n", "i", "n", "t", "e", "n", "d", "o">>, category |-> entertainment],
     [keyword |-> <<"k", "o", "n", "s", "e", "r">>, category |-> entertainment],
     [keyword |-> <<"t", "i", "k", "e", "t">>, category |-> entertainment],
     [keyword |-> <<"g", "a", "j", "i">>, category |-> income],
     [keyword |-> <<"s", "a", "l", "a", "r", "y">>, category |-> income],
     [keyword |-> <<"f", "r", "e", "e", "l", "a", "n", "c", "e">>, category |-> income],
     [keyword |-> <<"b", "o", "n", "u", "s">>, category |-> income],
     [keyword |-> <<"t", "h", "r">>, category |-> income],
     [keyword |-> <<"d", "i", "v", "i", "d", "e", "n">>, category |-> income],
     [keyword |-> <<"b", "u", "n", "g", "a">>, category |-> income],
     [keyword |-> <<"c", "a", "s", "h", "b", "a", "c", "k">>, category |-> income],
     [keyword |-> <<"r", "e", "f", "u", "n", "d">>, category |-> income],
     [keyword |-> <<"t", "r", "a", "n", "s", "f", "e", "r">>, category |-> income] >>

\* DEFAULT_KEYWORDS is an object literal: its prototype is Object.prototype, whose
\* properties the in operator and a property read also find
PrototypeKeys ==
  { <<"c", "o", "n", "s", "t", "r", "u", "c", "t", "o", "r">>,
    <<"_", "_", "p", "r", "o", "t", "o", "_", "_">>,
    <<"h", "a", "s", "O", "w", "n", "P", "r", "o", "p", "e", "r", "t", "y">>,
    <<"i", "s", "P", "r", "o", "t", "o", "t", "y", "p", "e", "O", "f">>,
    <<"p", "r", "o", "p", "e", "r", "t", "y", "I", "s", "E", "n", "u", "m", "e", "r", "a", "b", "l", "e">>,
    <<"t", "o", "L", "o", "c", "a", "l", "e", "S", "t", "r", "i", "n", "g">>,
    <<"t", "o", "S", "t", "r", "i", "n", "g">>,
    <<"v", "a", "l", "u", "e", "O", "f">>,
    <<"_", "_", "d", "e", "f", "i", "n", "e", "G", "e", "t", "t", "e", "r", "_", "_">>,
    <<"_", "_", "d", "e", "f", "i", "n", "e", "S", "e", "t", "t", "e", "r", "_", "_">>,
    <<"_", "_", "l", "o", "o", "k", "u", "p", "G", "e", "t", "t", "e", "r", "_", "_">>,
    <<"_", "_", "l", "o", "o", "k", "u", "p", "S", "e", "t", "t", "e", "r", "_", "_">> }

Entries == 1..Len(DEFAULT_KEYWORDS)

\* the least element of a non-empty set of indices
First(S) == CHOOSE i \in S : \A j \in S : i <= j

HasOwn(word) == \E i \in Entries : DEFAULT_KEYWORDS[i].keyword = word

\* word in DEFAULT_KEYWORDS
InDefaultKeywords(word) == HasOwn(word) \/ word \in PrototypeKeys

\* DEFAULT_KEYWORDS[word], for a word that is in DEFAULT_KEYWORDS
DefaultKeyword(word) ==
  IF HasOwn(word)
  THEN Str(DEFAULT_KEYWORDS[CHOOSE i \in Entries : DEFAULT_KEYWORDS[i].keyword = word].category)
  ELSE Obj(word)

\* s.split(/\s+/)
RECURSIVE split(_)
split(s) ==
  LET stops == {i \in 1..Len(s) : s[i] \in Space}
      w == IF stops = {} THEN Len(s) + 1 ELSE First(stops)
      rest == DropTo(s, w)
  IN  IF w > Len(s) THEN <<s>>
      ELSE <<SubSeq(s, 1, w - 1)>> \o split(DropTo(rest, RunLen(rest, Space) + 1))

\* Math.min without the substitution term
MinOfFirstTwo(a, b, c) == IF a <= b THEN a ELSE b

Min3(a, b, c) == IF a <= b /\ a <= c THEN a ELSE IF b <= c THEN b ELSE c

\* the inner loop of levenshteinDistance: row holds dp[i][0..j-1], prev is dp[i-1]
RECURSIVE LevRow(_, _, _, _)
LevRow(c, str2, prev, row) ==
  LET j == Len(row)
  IN  IF j > Len(str2) THEN row
      ELSE LevRow(c, str2, prev,
                  Append(row, IF c = str2[j] THEN prev[j]
                              ELSE 1 + Min3(prev[j + 1], row[j], prev[j])))

\* the outer loop of levenshteinDistance
RECURSIVE LevRows(_, _, _, _)
LevRows(str1, str2, i, prev) ==
  IF i > Len(str1) THEN prev
  ELSE LevRows(str1, str2, i + 1, LevRow(str1[i], str2, prev, <<i>>))

levenshteinDistance(str1, str2) ==
  LevRows(str1, str2, 1, [j \in 1..(Len(str2) + 1) |-> j - 1])[Len(str2) + 1]

\* 1 - distance / maxLength, as the fraction num/den
stringSimilarity(str1, str2) ==
  LET maxLength == IF Len(str1) >= Len(str2) THEN Len(str1) ELSE Len(str2)
  IN  IF maxLength = 0 THEN [num |-> 1, den |-> 1]
      ELSE [num |-> maxLength - levenshteinDistance(str1, str2), den |-> maxLength]

\* a threshold of 0.5 for the fuzzy pass
FuzzyThresholdHalf == [num |-> 1, den |-> 2]

\* 0.7, the threshold categorize passes to findFuzzyMatch
FuzzyThreshold == [num |-> 7, den |-> 10]

AtLeast(a, b) == a.num * b.den >= b.num * a.den
Greater(a, b) == a.num * b.den > b.num * a.den

\* the body of the loop with >= for >: a later keyword of equal similarity wins
FuzzyStepKeepsLast(input, keyword, threshold, bestMatch) ==
  LET similarity == stringSimilarity(input, keyword)
  IN  IF /\ AtLeast(similarity, threshold)
         /\ (bestMatch = Null \/ AtLeast(similarity, bestMatch.similarity))
      THEN [kind |-> "match", keyword |-> keyword, similarity |-> similarity]
      ELSE bestMatch

\* one pass through the body of the loop of findFuzzyMatch
FuzzyStep(input, keyword, threshold, bestMatch) ==
  LET similarity == stringSimilarity(input, keyword)
  IN  IF /\ AtLeast(similarity, threshold)
         /\ (bestMatch = Null \/ Greater(similarity, bestMatch.similarity))
      THEN [kind |-> "match", keyword |-> keyword, similarity |-> similarity]
      ELSE bestMatch

\* the loop of findFuzzyMatch over keywords[lo..hi], in order, entered with
\* bestMatch; the range is run as its first half followed by its second half
RECURSIVE FuzzyLoop(_, _, _, _, _, _)
FuzzyLoop(input, keywords, threshold, lo, hi, bestMatch) ==
  IF lo > hi THEN bestMatch
  ELSE IF lo = hi THEN FuzzyStep(input, keywords[lo], threshold, bestMatch)
  ELSE LET half == FuzzyLoop(input, keywords, threshold, lo, (lo + hi) \div 2, bestMatch)
       IN  IF half = Null
           THEN FuzzyLoop(input, keywords, threshold, (lo + hi) \div 2 + 1, hi, Null)
           ELSE FuzzyLoop(input, keywords, threshold, (lo + hi) \div 2 + 1, hi, half)

findFuzzyMatch(input, keywords, threshold) ==
  FuzzyLoop(input, keywords, threshold, 1, Len(keywords), Null)

\* Object.keys(DEFAULT_KEYWORDS)
defaultKeywordsList == [i \in Entries |-> DEFAULT_KEYWORDS[i].keyword]

\* categorize, tier 2: the first word that is in DEFAULT_KEYWORDS
ExactTier(words) ==
  LET hits == {w \in 1..Len(words) : InDefaultKeywords(words[w])}
  IN  IF hits = {} THEN Null ELSE DefaultKeyword(words[First(hits)])

\* SubstringHit without the condition on the lengths
SubstringHitAnyLength(word, keyword) ==
  includes(word, keyword) \/ includes(keyword, word)

\* the condition under which tier 3 returns the category of an entry for a word
SubstringHit(word, keyword) ==
  /\ includes(word, keyword) \/ includes(keyword, word)
  /\ Len(word) >= 3 /\ Len(keyword) >= 3

\* categorize, tier 3: the first entry that hits for the first word with a hit
SubstringTier(words) ==
  LET hits == {w \in 1..Len(words) :
                 \E i \in Entries : SubstringHit(words[w], DEFAULT_KEYWORDS[i].keyword)}
      word == words[First(hits)]
  IN  IF hits = {} THEN Null
      ELSE Str(DEFAULT_KEYWORDS[First({i \in Entries :
                 SubstringHit(word, DEFAULT_KEYWORDS[i].keyword)})].category)

\* categorize, tier 4: the best fuzzy match of the first word of 3 or more
\* characters that has one
FuzzyTier(words) ==
  LET hits == {w \in 1..Len(words) :
                 /\ Len(words[w]) >= 3
                 /\ findFuzzyMatch(words[w], defaultKeywordsList, FuzzyThreshold) # Null}
  IN  IF hits = {} THEN Null
      ELSE DefaultKeyword(
             findFuzzyMatch(words[First(hits)], defaultKeywordsList, FuzzyThreshold).keyword)

\* categorize after tier 1 has found no learned mapping: tiers 2, 3 and 4
StaticTiers(words) ==
  IF ExactTier(words) # Null THEN ExactTier(words)
  ELSE IF SubstringTier(words) # Null THEN SubstringTier(words)
  ELSE FuzzyTier(words)

\* categorizeFromDefaults, exact match: the first word that is in DEFAULT_KEYWORDS
DefaultsExactMatch(words) ==
  LET hits == {w \in 1..Len(words) : InDefaultKeywords(words[w])}
  IN  IF hits = {} THEN Null ELSE DefaultKeyword(words[First(hits)])

\* categorizeFromDefaults, partial match: the first entry that contains or is
\* contained in the first word for which there is one, both of 3 characters or more
DefaultsPartialMatch(words) ==
  LET Hit(w, i) == /\ \/ includes(words[w], DEFAULT_KEYWORDS[i].keyword)
                      \/ includes(DEFAULT_KEYWORDS[i].keyword, words[w])
                   /\ Len(words[w]) >= 3 /\ Len(DEFAULT_KEYWORDS[i].keyword) >= 3
      hits == {w \in 1..Len(words) : \E i \in Entries : Hit(w, i)}
  IN  IF hits = {} THEN Null
      ELSE Str(DEFAULT_KEYWORDS[First({i \in Entries : Hit(First(hits), i)})].category)

\* categorizeFromDefaults, fuzzy match: the best match of the first word of 3
\* characters or more that has one
DefaultsFuzzyMatch(words) ==
  LET Match(w) == findFuzzyMatch(words[w], defaultKeywordsList, FuzzyThreshold)
      hits == {w \in 1..Len(words) : Len(words[w]) >= 3 /\ Match(w) # Null}
  IN  IF hits = {} THEN Null ELSE DefaultKeyword(Match(First(hits)).keyword)

\* categorizeFromDefaults without its partial match
categorizeFromDefaultsNoPartial(description) ==
  IF description = <<>> \/ trim(description) = <<>> THEN Null
  ELSE LET words == split(trim(toLowerCase(description)))
       IN  IF DefaultsExactMatch(words) # Null THEN DefaultsExactMatch(words)
           ELSE DefaultsFuzzyMatch(words)

categorizeFromDefaults(description) ==
  IF description = <<>> \/ trim(description) = <<>> THEN Null
  ELSE LET words == split(trim(toLowerCase(description)))
       IN  IF DefaultsExactMatch(words) # Null THEN DefaultsExactMatch(words)
           ELSE IF DefaultsPartialMatch(words) # Null THEN DefaultsPartialMatch(words)
           ELSE DefaultsFuzzyMatch(words)

(***************************************************************************)
(* gemini.ts: the reading of the reply and the keyword that is learned.    *)
(***************************************************************************)
\* parseCategory with 'food' as the value returned for an unusable reply
parseCategoryDefaultFood(response) ==
  LET trimmed == trim(toLowerCase(response))
      hits == {i \in 1..Len(VALID_CATEGORIES) :
                 trimmed = VALID_CATEGORIES[i] \/ includes(trimmed, VALID_CATEGORIES[i])}
  IN  IF hits = {} THEN food ELSE VALID_CATEGORIES[First(hits)]

\* parseCategory with the category that comes first in the reply returned
parseCategoryByPosition(response) ==
  LET trimmed == trim(toLowerCase(response))
      hits == {i \in 1..Len(VALID_CATEGORIES) : includes(trimmed, VALID_CATEGORIES[i])}
      At(i) == IndexOf(trimmed, VALID_CATEGORIES[i])
  IN  IF hits = {} THEN other
      ELSE VALID_CATEGORIES[CHOOSE i \in hits : \A j \in hits : At(i) <= At(j)]

parseCategory(response) ==
  LET trimmed == trim(toLowerCase(response))
      hits == {i \in 1..Len(VALID_CATEGORIES) :
                 trimmed = VALID_CATEGORIES[i] \/ includes(trimmed, VALID_CATEGORIES[i])}
  IN  IF hits = {} THEN other ELSE VALID_CATEGORIES[First(hits)]

\* words.find without its condition: the first word
FindKeywordAnyWord(words) == IF words = <<>> THEN Null ELSE Str(words[1])

\* words.find(word => !/^\d/.test(word) && word.length >= 2), Null for undefined
FindKeyword(words) ==
  LET hits == {w \in 1..Len(words) : Len(words[w]) >= 2 /\ words[w][1] \notin Digit}
  IN  IF hits = {} THEN Null ELSE Str(words[First(hits)])

(***************************************************************************)
(* State.  The parser is exercised by two harnesses: a token handed to     *)
(* parseAmount, and a text built piece by piece and handed to parseInput.  *)
(* The categorizer runs as asynchronous calls against the learned-mapping  *)
(* store and the remote classifier.  Its synchronous helpers are called    *)
(* on arguments of their own.                                              *)
(***************************************************************************)
VARIABLES
  token,    \* the argument of a parseAmount call
  amount,   \* its result, Pending before the call
  raw,      \* the argument of a parseInput call
  typed,    \* the number of pieces it was built from
  parsed,   \* the result of parseInput(raw), Pending before the call
  apiKey,   \* whether import.meta.env.VITE_GEMINI_API_KEY is set
  mappings, \* db.categoryMappings: keyword -> [category, count]
  calls,    \* the number of categorizer calls made so far
  proc,     \* the categorizer call of each caller: its position, locals and result
  learned,  \* history: the last write to the store, if categorizeWithFallback made it
  upserts,  \* history: for each key, how many calls of setCategoryMapping wrote it
  args,     \* the arguments of a call of one of the pure helpers
  returned  \* what that call returned, Pending before the call

amountVars == <<token, amount>>
inputVars == <<raw, typed, parsed>>
categorizerVars == <<apiKey, mappings, calls, proc, learned, upserts>>
helperVars == <<args, returned>>
vars == <<token, amount, raw, typed, parsed, apiKey, mappings, calls, proc, learned, upserts,
          args, returned>>

Pending == [kind |-> "pending"]

\* all strings of n characters of alphabet
RECURSIVE Strings(_, _)
Strings(alphabet, n) ==
  IF n = 0 THEN {<<>>}
  ELSE {<<c>> \o s : c \in alphabet, s \in Strings(alphabet, n - 1)}

StringsUpTo(alphabet, lo, hi) == UNION {Strings(alphabet, n) : n \in lo..hi}

MaxWholeLen == 2
MaxFracLen == 4
MaxPieces == 4

WholeDigits == {"0", "1", "5"}
FracDigits == {"0", "5"}

\* what may follow the number in a token
TokenSuffixes ==
  { <<>>, <<"j", "t">>, <<"j", "u", "t", "a">>, <<"r", "b">>, <<"r", "i", "b", "u">>,
    <<"K">>, <<" ", "R", "b">>, <<"x">> }

\* a second group of digits
SecondGroups == { <<>>, <<".", "0", "0", "0">>, <<",", "0", "0", "0">> }

\* the tokens of the parseAmount harness: a whole part, then at most two groups of a
\* separator and digits, then a suffix; and a few that are not numeric at all
AmountTokens ==
  { w \o g1 \o g2 \o sfx :
      w \in StringsUpTo(WholeDigits, 1, MaxWholeLen),
      g1 \in {<<>>} \cup { <<sep>> \o f : sep \in Separator,
                                           f \in StringsUpTo(FracDigits, 0, MaxFracLen) },
      g2 \in SecondGroups,
      sfx \in TokenSuffixes }
  \cup { NonString, <<>>, <<" ">>, <<" ", "1", "5", "r", "b", " ">>,
         <<"h", "e", "l", "l", "o">> }

\* what one keystroke (or paste) adds to the quick input
Pieces ==
  { <<"a">>, <<" ">>, <<",">>, <<" ", ",">>, <<"1", "5">>, <<"0">>, <<"r", "b">>,
    <<"j", "t">>, <<",", "0", "0", "0">>, <<",", "0", "0", "0", "5">> }

(***************************************************************************)
(* The categorizer: inputs and the state of a call                         *)
(***************************************************************************)
\* the callers that may have a categorizer call in progress
Procs == {"p1", "p2"}

MaxCalls == 3

martabak == <<"m", "a", "r", "t", "a", "b", "a", "k">>

\* descriptions: a static keyword, an unknown word, a property of Object.prototype,
\* two words in mixed case, a static keyword before an unknown word, a leading
\* number, no usable keyword, and nothing
Descriptions ==
  { <<"b", "a", "k", "s", "o">>,
    martabak,
    <<"c", "o", "n", "s", "t", "r", "u", "c", "t", "o", "r">>,
    <<"B", "e", "l", "i", " ", "M", "a", "r", "t", "a", "b", "a", "k">>,
    <<"B", "a", "k", "s", "o", " ", " ", "M", "a", "r", "t", "a", "b", "a", "k">>,
    <<"5", " ", "x", "x">>,
    <<"7">>,
    <<>> }

\* the text of a reply of the remote classifier
Replies ==
  { food, <<" ", "B", "i", "l", "l", "s", "\t">>, <<"n", "o", "n", "e">>, other }

\* the learned mappings the application may start with
InitialMappings ==
  { <<>>, [k \in {martabak} |-> [category |-> food, count |-> 1]] }

\* phrases for categorize and categorizeFromDefaults: two static keywords, a
\* misspelt keyword before a keyword, a word that contains a keyword before a
\* keyword, a misspelt keyword before a containing word, two containing words,
\* two misspelt keywords, a property of Object.prototype before a keyword, a
\* word that may be learned before a keyword, no match, blanks, nothing, and a
\* word that several keywords of different categories contain, and a short
\* word before a word two edits away from a keyword
Phrases ==
  { <<"a", "b", " ", "b", "a", "x", "x", "o">>,
    <<"b", "e", "l", "i", " ", "n", "e", "t">>,
    <<"k", "o", "p", "i", " ", "g", "r", "a", "b">>,
    <<"b", "a", "k", "s", "u", " ", "g", "r", "a", "b">>,
    <<"g", "r", "a", "b", "c", "a", "r", " ", "k", "o", "p", "i">>,
    <<"s", "p", "o", "t", "i", "f", "i", " ", "g", "r", "a", "b", "c", "a", "r">>,
    <<"g", "r", "a", "b", "c", "a", "r", " ", "n", "e", "t", "f", "l", "i", "x", "x">>,
    <<"s", "p", "o", "t", "i", "f", "i", " ", "b", "a", "k", "s", "u">>,
    <<"c", "o", "n", "s", "t", "r", "u", "c", "t", "o", "r", " ", "b", "a", "k", "s", "o">>,
    <<"M", "a", "r", "t", "a", "b", "a", "k", " ", "G", "r", "a", "b">>,
    <<"x", "x", " ", "7">>,
    <<" ", " ">>,
    <<>> }

\* tiers 2 to 4 for each description, computed once
StaticCategory ==
  [d \in Descriptions \cup Phrases |-> StaticTiers(split(trim(toLowerCase(d))))]

Rejected == [kind |-> "rejected"]
Resolved(value) == [kind |-> "resolved", value |-> value]

\* a caller with no call in progress
Idle ==
  [ pc |-> "idle", fn |-> "none", description |-> <<>>,
    useGemini |-> FALSE, saveToMappings |-> FALSE,
    words |-> <<>>, i |-> 0, category |-> Null, keyword |-> Null, existing |-> Null,
    response |-> "none", body |-> Null, result |-> Pending,
    requests |-> 0, setCalls |-> 0, writes |-> 0 ]

CategorizerAtRest ==
  /\ apiKey = FALSE
  /\ mappings = <<>>
  /\ calls = 0
  /\ proc = [p \in Procs |-> Idle]
  /\ learned = Null
  /\ upserts = <<>>

(***************************************************************************)
(* The parseAmount harness                                                 *)
(***************************************************************************)
HelpersAtRest ==
  /\ args = Null
  /\ returned = Null

InitAmount ==
  /\ token \in AmountTokens
  /\ amount = Pending
  /\ raw = <<>>
  /\ typed = 0
  /\ parsed = Null
  /\ HelpersAtRest
  /\ CategorizerAtRest

CallParseAmount ==
  /\ amount = Pending
  /\ amount' = parseAmount(token)
  /\ UNCHANGED <<token, inputVars, categorizerVars, helperVars>>

NextAmount == CallParseAmount

SpecAmount == InitAmount /\ [][NextAmount]_vars

(***************************************************************************)
(* The parseInput harness                                                  *)
(***************************************************************************)
InitInput ==
  /\ raw \in {<<>>, NonString}
  /\ typed = 0
  /\ parsed = Pending
  /\ token = <<>>
  /\ amount = Null
  /\ CategorizerAtRest
  /\ HelpersAtRest

Type(piece) ==
  /\ parsed = Pending
  /\ raw # NonString
  /\ typed < MaxPieces
  /\ raw' = raw \o piece
  /\ typed' = typed + 1
  /\ UNCHANGED <<parsed, amountVars, categorizerVars, helperVars>>

\* parseInput(raw), as handleQuickInputSubmit calls it
CallParseInput ==
  /\ parsed = Pending
  /\ parsed' = parseInput(raw)
  /\ UNCHANGED <<raw, typed, amountVars, categorizerVars, helperVars>>

NextInput == (\E piece \in Pieces : Type(piece)) \/ CallParseInput

SpecInput == InitInput /\ [][NextInput]_vars

(***************************************************************************)
(* The fuzzy-matching harness: levenshteinDistance on two strings, and     *)
(* findFuzzyMatch on an input, a list of keywords and a threshold          *)
(***************************************************************************)
MaxLevLen == 3
MaxKeywords == 3

LevAlphabet == {"a", "b"}

LevStrings == StringsUpTo(LevAlphabet, 0, MaxLevLen)

\* the keywords a list handed to findFuzzyMatch is made of
FuzzyKeywords == { <<"a">>, <<"a", "b">>, <<"b", "a">>, <<"a", "b", "b">> }

\* the thresholds handed to findFuzzyMatch: the default 0.7, and 0.5
Thresholds == { FuzzyThreshold, [num |-> 1, den |-> 2] }

Returned(v) == [kind |-> "returned", value |-> v]

InitFuzzy ==
  /\ args \in [fn : {"levenshteinDistance"}, str1 : LevStrings, str2 : LevStrings]
         \cup [fn : {"findFuzzyMatch"}, input : LevStrings,
               keywords : StringsUpTo(FuzzyKeywords, 0, MaxKeywords),
               threshold : Thresholds]
  /\ returned = Pending
  /\ token = <<>>
  /\ amount = Null
  /\ raw = <<>>
  /\ typed = 0
  /\ parsed = Null
  /\ CategorizerAtRest

CallLevenshteinDistance ==
  /\ returned = Pending
  /\ args.fn = "levenshteinDistance"
  /\ returned' = Returned(levenshteinDistance(args.str1, args.str2))
  /\ UNCHANGED <<args, amountVars, inputVars, categorizerVars>>

CallFindFuzzyMatch ==
  /\ returned = Pending
  /\ args.fn = "findFuzzyMatch"
  /\ returned' = Returned(findFuzzyMatch(args.input, args.keywords, args.threshold))
  /\ UNCHANGED <<args, amountVars, inputVars, categorizerVars>>

NextFuzzy == CallLevenshteinDistance \/ CallFindFuzzyMatch

SpecFuzzy == InitFuzzy /\ [][NextFuzzy]_vars

(***************************************************************************)
(* The categorizer calls.  A call runs from one await to the next in one   *)
(* step; the store and the network settle each await, with success or     *)
(* with a rejection.                                                       *)
(***************************************************************************)
\* the call is over, with a value returned or a rejection
Settle(st, result) == [st EXCEPT !.pc = "done", !.result = result]

\* categorizeWithGemini up to its await of fetch
GeminiBegin(st, saveToMappings) ==
  IF ~apiKey THEN Settle(st, Resolved(Str(other)))
  ELSE [st EXCEPT !.pc = "fetch", !.saveToMappings = saveToMappings,
                  !.requests = @ + 1]

\* AfterCategorize with the remote classifier asked whatever categorize found
AfterCategorizeAlwaysRemote(st, localCategory) ==
  IF st.fn = "categorize" THEN Settle(st, Resolved(localCategory))
  ELSE IF st.useGemini /\ apiKey THEN GeminiBegin(st, TRUE)
  ELSE IF Truthy(localCategory) THEN Settle(st, Resolved(localCategory))
  ELSE Settle(st, Resolved(Str(other)))

\* what follows categorize's search: its return and, in categorizeWithFallback,
\* the use of what it returned
AfterCategorize(st, localCategory) ==
  IF st.fn = "categorize" THEN Settle(st, Resolved(localCategory))
  ELSE IF Truthy(localCategory) THEN Settle(st, Resolved(localCategory))
  ELSE IF st.useGemini /\ apiKey THEN GeminiBegin(st, TRUE)
  ELSE Settle(st, Resolved(Str(other)))

\* categorize up to its first await of getCategoryMapping
CategorizeBegin(st) ==
  IF st.description = <<>> \/ trim(st.description) = <<>>
  THEN AfterCategorize(st, Null)
  ELSE [st EXCEPT !.words = split(trim(toLowerCase(st.description))),
                  !.i = 1, !.pc = "getCategoryMapping"]

\* categorizeWithGemini after response.json() has settled with body
AfterReply(st, body) ==
  IF body = Rejected \/ ~Truthy(body) THEN Settle(st, Resolved(Str(other)))
  ELSE LET category == parseCategory(body.text)
           keyword == FindKeyword(split(trim(toLowerCase(st.description))))
       IN  IF st.saveToMappings /\ category # other /\ keyword # Null
           THEN [st EXCEPT !.category = Str(category), !.keyword = keyword,
                           !.setCalls = @ + 1, !.pc = "get"]
           ELSE Settle([st EXCEPT !.category = Str(category)], Resolved(Str(category)))

InitCategorizer ==
  /\ apiKey \in BOOLEAN
  /\ mappings \in InitialMappings
  /\ calls = 0
  /\ proc = [p \in Procs |-> Idle]
  /\ learned = Null
  /\ upserts = <<>>
  /\ token = <<>>
  /\ amount = Null
  /\ raw = <<>>
  /\ typed = 0
  /\ parsed = Null
  /\ HelpersAtRest

\* a caller calls categorize(description), categorizeWithFallback(description, flag)
\* or categorizeWithGemini(description, flag); calls follow one another
Call(p, fn, description, flag) ==
  /\ \A q \in Procs : proc[q].pc = "idle"
  /\ calls < MaxCalls
  /\ calls' = calls + 1
  /\ LET st == [Idle EXCEPT !.fn = fn, !.description = description,
                            !.useGemini = (fn = "categorizeWithFallback" /\ flag)]
     IN  proc' = [proc EXCEPT ![p] =
                    IF fn = "categorizeWithGemini" THEN GeminiBegin(st, flag)
                    ELSE CategorizeBegin(st)]
  /\ UNCHANGED <<apiKey, mappings, learned, upserts, amountVars, inputVars, helperVars>>

\* GetCategoryMapping with the static table consulted before the learned mappings
GetCategoryMappingStaticFirst(p, ok) ==
  /\ proc[p].pc = "getCategoryMapping"
  /\ LET st == proc[p]
         word == toLowerCase(st.words[st.i])
     IN  proc' = [proc EXCEPT ![p] =
                    IF ~ok THEN Settle(st, Rejected)
                    ELSE IF StaticCategory[st.description] # Null
                    THEN AfterCategorize(st, StaticCategory[st.description])
                    ELSE IF word \in DOMAIN mappings
                    THEN AfterCategorize(st, Str(mappings[word].category))
                    ELSE IF st.i < Len(st.words) THEN [st EXCEPT !.i = @ + 1]
                    ELSE AfterCategorize(st, Null)]
  /\ UNCHANGED <<apiKey, mappings, calls, learned, upserts, amountVars, inputVars, helperVars>>

\* GetCategoryMapping with the learned mapping of the first word only looked up
GetCategoryMappingFirstWordOnly(p, ok) ==
  /\ proc[p].pc = "getCategoryMapping"
  /\ LET st == proc[p]
         word == toLowerCase(st.words[st.i])
     IN  proc' = [proc EXCEPT ![p] =
                    IF ~ok THEN Settle(st, Rejected)
                    ELSE IF word \in DOMAIN mappings
                    THEN AfterCategorize(st, Str(mappings[word].category))
                    ELSE AfterCategorize(st, StaticCategory[st.description])]
  /\ UNCHANGED <<apiKey, mappings, calls, learned, upserts, amountVars, inputVars, helperVars>>

\* await getCategoryMapping(word) settles, in tier 1 of categorize
GetCategoryMapping(p, ok) ==
  /\ proc[p].pc = "getCategoryMapping"
  /\ LET st == proc[p]
         word == toLowerCase(st.words[st.i])
     IN  proc' = [proc EXCEPT ![p] =
                    IF ~ok THEN Settle(st, Rejected)
                    ELSE IF word \in DOMAIN mappings
                    THEN AfterCategorize(st, Str(mappings[word].category))
                    ELSE IF st.i < Len(st.words) THEN [st EXCEPT !.i = @ + 1]
                    ELSE AfterCategorize(st, StaticCategory[st.description])]
  /\ UNCHANGED <<apiKey, mappings, calls, learned, upserts, amountVars, inputVars, helperVars>>

\* FetchSettles with one more attempt after a first request that fails
FetchSettlesRetry(p, outcome) ==
  /\ proc[p].pc = "fetch"
  /\ LET st == [proc[p] EXCEPT !.response = outcome]
     IN  proc' = [proc EXCEPT ![p] =
                    IF outcome = "ok" THEN [st EXCEPT !.pc = "json"]
                    ELSE IF st.requests < 2 THEN [st EXCEPT !.requests = @ + 1]
                    ELSE Settle(st, Resolved(Str(other)))]
  /\ UNCHANGED <<apiKey, mappings, calls, learned, upserts, amountVars, inputVars, helperVars>>

\* await fetch(...) settles: it rejects, or resolves to a response that is ok or not
FetchSettles(p, outcome) ==
  /\ proc[p].pc = "fetch"
  /\ LET st == [proc[p] EXCEPT !.response = outcome]
     IN  proc' = [proc EXCEPT ![p] =
                    IF outcome = "ok" THEN [st EXCEPT !.pc = "json"]
                    ELSE Settle(st, Resolved(Str(other)))]
  /\ UNCHANGED <<apiKey, mappings, calls, learned, upserts, amountVars, inputVars, helperVars>>

\* await response.json() settles: it rejects, or resolves to data whose text is
\* body (Null when the path to the text is missing)
JsonSettles(p, body) ==
  /\ proc[p].pc = "json"
  /\ proc' = [proc EXCEPT ![p] = AfterReply([proc[p] EXCEPT !.body = body], body)]
  /\ UNCHANGED <<apiKey, mappings, calls, learned, upserts, amountVars, inputVars, helperVars>>

\* what follows await setCategoryMapping(...): categorizeWithGemini returns the
\* category whether the call failed or not; a caller of setCategoryMapping itself
\* gets nothing, or the rejection
AfterUpsert(st, ok) ==
  IF st.fn = "setCategoryMapping"
  THEN Settle(st, IF ok THEN Resolved(Null) ELSE Rejected)
  ELSE Settle(st, Resolved(st.category))

\* StoreGet with a rejection that reaches the outer catch of categorizeWithGemini
StoreGetFailureYieldsOther(p, ok) ==
  /\ proc[p].pc = "get"
  /\ LET st == proc[p]
         key == toLowerCase(st.keyword.text)
     IN  proc' = [proc EXCEPT ![p] =
                    IF ~ok THEN Settle(st, Resolved(Str(other)))
                    ELSE [st EXCEPT !.pc = "put",
                                    !.existing = IF key \in DOMAIN mappings
                                                 THEN mappings[key] ELSE Null]]
  /\ UNCHANGED <<apiKey, mappings, calls, learned, upserts, amountVars, inputVars, helperVars>>

\* setCategoryMapping: await db.categoryMappings.get(keyword) settles; a rejection
\* is caught in categorizeWithGemini
StoreGet(p, ok) ==
  /\ proc[p].pc = "get"
  /\ LET st == proc[p]
         key == toLowerCase(st.keyword.text)
     IN  proc' = [proc EXCEPT ![p] =
                    IF ~ok THEN AfterUpsert(st, FALSE)
                    ELSE [st EXCEPT !.pc = "put",
                                    !.existing = IF key \in DOMAIN mappings
                                                 THEN mappings[key] ELSE Null]]
  /\ UNCHANGED <<apiKey, mappings, calls, learned, upserts, amountVars, inputVars, helperVars>>

\* StorePut with an update that sets the category and leaves the count as it was
StorePutKeepsCount(p, ok) ==
  /\ proc[p].pc = "put"
  /\ LET st == proc[p]
         key == toLowerCase(st.keyword.text)
     IN  /\ mappings' =
              IF ~ok THEN mappings
              ELSE IF st.existing # Null
              THEN IF key \in DOMAIN mappings
                   THEN [mappings EXCEPT ![key] =
                           [category |-> st.category.text, count |-> st.existing.count]]
                   ELSE mappings
              ELSE [k \in DOMAIN mappings \cup {key} |->
                      IF k = key THEN [category |-> st.category.text, count |-> 1]
                      ELSE mappings[k]]
         /\ proc' = [proc EXCEPT ![p] =
                      AfterUpsert([st EXCEPT !.writes = IF ok THEN @ + 1 ELSE @], ok)]
         /\ upserts' =
              IF ~ok THEN upserts
              ELSE [k \in DOMAIN upserts \cup {key} |->
                      IF k # key THEN upserts[k]
                      ELSE IF key \in DOMAIN upserts THEN upserts[key] + 1 ELSE 1]
         /\ learned' =
              IF ~ok THEN learned
              ELSE IF st.fn = "categorizeWithFallback"
              THEN [kind |-> "learned", description |-> st.description,
                    category |-> st.category.text, call |-> calls]
              ELSE Null
  /\ UNCHANGED <<apiKey, calls, amountVars, inputVars, helperVars>>

\* setCategoryMapping: await db.categoryMappings.update(...) or put(...) settles
StorePut(p, ok) ==
  /\ proc[p].pc = "put"
  /\ LET st == proc[p]
         key == toLowerCase(st.keyword.text)
     IN  /\ mappings' =
              IF ~ok THEN mappings
              ELSE IF st.existing # Null
              THEN IF key \in DOMAIN mappings
                   THEN [mappings EXCEPT ![key] =
                           [category |-> st.category.text, count |-> st.existing.count + 1]]
                   ELSE mappings
              ELSE [k \in DOMAIN mappings \cup {key} |->
                      IF k = key THEN [category |-> st.category.text, count |-> 1]
                      ELSE mappings[k]]
         /\ proc' = [proc EXCEPT ![p] =
                      AfterUpsert([st EXCEPT !.writes = IF ok THEN @ + 1 ELSE @], ok)]
         /\ upserts' =
              IF ~ok THEN upserts
              ELSE [k \in DOMAIN upserts \cup {key} |->
                      IF k # key THEN upserts[k]
                      ELSE IF key \in DOMAIN upserts THEN upserts[key] + 1 ELSE 1]
         /\ learned' =
              IF ~ok THEN learned
              ELSE IF st.fn = "categorizeWithFallback"
              THEN [kind |-> "learned", description |-> st.description,
                    category |-> st.category.text, call |-> calls]
              ELSE Null
  /\ UNCHANGED <<apiKey, calls, amountVars, inputVars, helperVars>>

\* the caller has taken the result of its call
Return(p) ==
  /\ proc[p].pc = "done"
  /\ proc' = [proc EXCEPT ![p] = Idle]
  /\ UNCHANGED <<apiKey, mappings, calls, learned, upserts, amountVars, inputVars, helperVars>>

Functions == {"categorize", "categorizeWithFallback", "categorizeWithGemini"}

\* what the promise of response.json() may settle with
Bodies == {Rejected, Null, Str(<<>>)} \cup {Str(r) : r \in Replies}

StoreStep(p) ==
  \/ \E ok \in BOOLEAN : GetCategoryMapping(p, ok)
  \/ \E ok \in BOOLEAN : StoreGet(p, ok)
  \/ \E ok \in BOOLEAN : StorePut(p, ok)

NetworkStep(p) ==
  \/ \E outcome \in {"reject", "error", "ok"} : FetchSettles(p, outcome)
  \/ \E body \in Bodies : JsonSettles(p, body)

Next ==
  \E p \in Procs :
    \/ \E fn \in Functions, description \in Descriptions, flag \in BOOLEAN :
         Call(p, fn, description, flag)
    \/ StoreStep(p)
    \/ NetworkStep(p)
    \/ Return(p)

Spec == InitCategorizer /\ [][Next]_vars

\* the store settles every request made of it and a caller takes its result; the
\* network is not bound to answer
FairSpec ==
  /\ InitCategorizer
  /\ [][Next]_vars
  /\ \A p \in Procs : WF_vars(StoreStep(p)) /\ WF_vars(Return(p))

(***************************************************************************)
(* The reply harness: parseCategory on the text of a reply                 *)
(***************************************************************************)
MaxReplyParts == 3

\* what the text of a reply is made of
ReplyParts ==
  { food, other, <<"B", "i", "l", "l", "s">>, <<"I", "N", "C", "O", "M", "E">>, <<"x">>, <<" ">>, <<"\t">> }

RECURSIVE Concat(_)
Concat(parts) == IF parts = <<>> THEN <<>> ELSE Head(parts) \o Concat(Tail(parts))

ReplyTexts == {Concat(parts) : parts \in StringsUpTo(ReplyParts, 0, MaxReplyParts)}

InitReply ==
  /\ args \in [fn : {"parseCategory"}, response : ReplyTexts]
  /\ returned = Pending
  /\ token = <<>>
  /\ amount = Null
  /\ raw = <<>>
  /\ typed = 0
  /\ parsed = Null
  /\ CategorizerAtRest

CallParseCategory ==
  /\ returned = Pending
  /\ returned' = Returned(parseCategory(args.response))
  /\ UNCHANGED <<args, amountVars, inputVars, categorizerVars>>

NextReply == CallParseCategory

SpecReply == InitReply /\ [][NextReply]_vars

(***************************************************************************)
(* The store harness: setCategoryMapping and updateCategoryMapping are     *)
(* called on an empty store, one call after the other (SpecStore) or with  *)
(* calls of setCategoryMapping that overlap (SpecOverlap)                  *)
(***************************************************************************)
\* the keywords handed to the store: two spellings of one, and another
Keywords == { <<"k", "o", "p", "i">>, <<"K", "o", "p", "i">>, <<"t", "e", "h">> }

StoredCategories == {food, bills}

InitStore ==
  /\ CategorizerAtRest
  /\ HelpersAtRest
  /\ token = <<>>
  /\ amount = Null
  /\ raw = <<>>
  /\ typed = 0
  /\ parsed = Null

\* a caller calls setCategoryMapping(keyword, category), which runs up to its
\* await of db.categoryMappings.get
SetCategoryMapping(p, keyword, category) ==
  /\ proc[p].pc = "idle"
  /\ calls < MaxCalls
  /\ calls' = calls + 1
  /\ proc' = [proc EXCEPT ![p] =
                [Idle EXCEPT !.fn = "setCategoryMapping", !.keyword = Str(keyword),
                             !.category = Str(category), !.setCalls = 1, !.pc = "get"]]
  /\ UNCHANGED <<apiKey, mappings, learned, upserts, amountVars, inputVars, helperVars>>

\* updateCategoryMapping(keyword, category): db.categoryMappings.update changes
\* the category of the mapping of the key, if there is one
UpdateCategoryMapping(keyword, category) ==
  /\ calls < MaxCalls
  /\ calls' = calls + 1
  /\ mappings' = [k \in DOMAIN mappings |->
                    IF k = toLowerCase(keyword)
                    THEN [mappings[k] EXCEPT !.category = category]
                    ELSE mappings[k]]
  /\ UNCHANGED <<apiKey, proc, learned, upserts, amountVars, inputVars, helperVars>>

AllIdle == \A q \in Procs : proc[q].pc = "idle"

NextStore ==
  \/ /\ AllIdle
     /\ \E keyword \in Keywords, category \in StoredCategories :
          \/ \E p \in Procs : SetCategoryMapping(p, keyword, category)
          \/ UpdateCategoryMapping(keyword, category)
  \/ \E p \in Procs :
       \/ \E ok \in BOOLEAN : StoreGet(p, ok)
       \/ \E ok \in BOOLEAN : StorePut(p, ok)
       \/ Return(p)

SpecStore == InitStore /\ [][NextStore]_vars

NextOverlap ==
  \E p \in Procs :
    \/ \E keyword \in Keywords, category \in StoredCategories :
         SetCategoryMapping(p, keyword, category)
    \/ \E ok \in BOOLEAN : StoreGet(p, ok)
    \/ \E ok \in BOOLEAN : StorePut(p, ok)
    \/ Return(p)

SpecOverlap == InitStore /\ [][NextOverlap]_vars

(***************************************************************************)
(* The phrase harness: categorize and categorizeFromDefaults are called on *)
(* one phrase, categorize against a store that nothing writes to           *)
(***************************************************************************)
InitPhrase ==
  /\ args \in [fn : {"categorizeFromDefaults"}, description : Phrases]
  /\ returned = Pending
  /\ apiKey = FALSE
  /\ mappings \in InitialMappings
  /\ calls = 0
  /\ proc = [p \in Procs |-> Idle]
  /\ learned = Null
  /\ upserts = <<>>
  /\ token = <<>>
  /\ amount = Null
  /\ raw = <<>>
  /\ typed = 0
  /\ parsed = Null

CallCategorizeFromDefaults ==
  /\ returned = Pending
  /\ returned' = Returned(categorizeFromDefaults(args.description))
  /\ UNCHANGED <<args, amountVars, inputVars, categorizerVars>>

NextPhrase ==
  \/ CallCategorizeFromDefaults
  \/ \E p \in Procs :
       \/ Call(p, "categorize", args.description, FALSE)
       \/ \E ok \in BOOLEAN : GetCategoryMapping(p, ok)
       \/ Return(p)

SpecPhrase == InitPhrase /\ [][NextPhrase]_vars

(***************************************************************************)
(* Properties of parseCategory (SpecReply)                                 *)
(***************************************************************************)
\* the categories in their fixed order
CategoryOrder ==
  << <<"f", "o", "o", "d">>,
     <<"t", "r", "a", "n", "s", "p", "o", "r", "t">>,
     <<"b", "i", "l", "l", "s">>,
     <<"s", "h", "o", "p", "p", "i", "n", "g">>,
     <<"e", "n", "t", "e", "r", "t", "a", "i", "n", "m", "e", "n", "t">>,
     <<"i", "n", "c", "o", "m", "e">>,
     <<"o", "t", "h", "e", "r">> >>

\* where the name occurs in the text
Occurrences(name, text) ==
  {k \in 1..(Len(text) - Len(name) + 1) : SubSeq(text, k, k + Len(name) - 1) = name}

\* the categories that the text of the reply, in lower case and trimmed, names
Named(response) ==
  {i \in 1..Len(CategoryOrder) :
     Occurrences(CategoryOrder[i], trim(toLowerCase(response))) # {}}

\* C25: parseCategory returns the first category, in the fixed order, that the
\* reply in lower case and trimmed equals or contains, wherever the names stand
\* in the text, and 'other' when it contains none
C25_FirstInFixedOrder ==
  returned # Pending =>
    returned.value = IF Named(args.response) = {} THEN CategoryOrder[7]
                     ELSE CategoryOrder[First(Named(args.response))]

\* a reply in which a later category stands before the category that is returned
C25_Witness ==
  /\ returned # Pending
  /\ Cardinality(Named(args.response)) > 1
  /\ \E i \in Named(args.response) :
       /\ i > First(Named(args.response))
       /\ First(Occurrences(CategoryOrder[i], trim(toLowerCase(args.response))))
            < First(Occurrences(CategoryOrder[First(Named(args.response))],
                                trim(toLowerCase(args.response))))
  /\ args.response # toLowerCase(args.response)
  /\ returned.value = CategoryOrder[First(Named(args.response))]

(***************************************************************************)
(* Properties of the categorizer (Spec, FairSpec)                          *)
(***************************************************************************)
\* C1, as claimed: categorizeWithFallback always returns one of the seven Category
\* values, whatever the description, the learned store, useGemini and the remote
\* outcome.
C1_FallbackReturnsCategory ==
  \A p \in Procs :
    proc[p].fn = "categorizeWithFallback" /\ proc[p].result.kind = "resolved" =>
      /\ proc[p].result.value.kind = "string"
      /\ proc[p].result.value.text \in Category

\* a call of categorizeWithGemini has come to its end
GeminiDone(st) ==
  st.pc = "done" /\ (st.fn = "categorizeWithGemini" \/ st.requests > 0)

\* no category name occurs in the reply
Unparseable(text) == \A c \in Category : ~includes(trim(toLowerCase(text)), c)

\* the call met one of the failures: no credentials, a transport exception, a
\* non-success status, a body that cannot be read, no text, an unparseable text
GeminiFailed(st) ==
  \/ ~apiKey
  \/ st.response \in {"reject", "error"}
  \/ st.body = Rejected
  \/ st.body = Null
  \/ st.body.kind = "string" /\ (st.body.text = <<>> \/ Unparseable(st.body.text))

\* C2: categorizeWithGemini always resolves to a Category and never rejects;
\* missing credentials, a non-success status, a transport exception, a missing or
\* empty text and an unparseable reply each yield 'other', and then the learned
\* store is not written.
C2_GeminiFailuresYieldOther ==
  \A p \in Procs :
    GeminiDone(proc[p]) =>
      /\ proc[p].result.kind = "resolved"
      /\ proc[p].result.value.kind = "string"
      /\ proc[p].result.value.text \in Category
      /\ GeminiFailed(proc[p]) =>
           /\ proc[p].result = Resolved(Str(other))
           /\ proc[p].setCalls = 0
           /\ proc[p].writes = 0

\* a call that was to save its answer, for a description with a keyword, got a
\* reply that names no category
C2_Witness ==
  \E p \in Procs :
    /\ GeminiDone(proc[p])
    /\ proc[p].saveToMappings
    /\ proc[p].description = martabak
    /\ proc[p].response = "ok"
    /\ proc[p].body.kind = "string"
    /\ proc[p].body.text # <<>>
    /\ Unparseable(proc[p].body.text)
    /\ proc[p].result = Resolved(Str(other))

\* C3, as claimed: categorize and categorizeWithFallback never reject; every
\* failure, a failing read of the learned store in tier 1 included, ends in a
\* fallback value.
C3_NeverRejects ==
  \A p \in Procs :
    proc[p].fn \in {"categorize", "categorizeWithFallback"} => proc[p].result # Rejected

\* C4, as claimed: every call to the remote classifier eventually resolves, even
\* when the remote endpoint never answers.
C4_RemoteCallResolves ==
  \A p \in Procs : (proc[p].pc = "fetch") ~> (proc[p].pc = "done")

\* the words of a description, as categorize and categorizeWithGemini split it
WordsOf(description) == split(trim(toLowerCase(description)))

\* the positions of the words of a description that have a learned mapping
LearnedWords(description) ==
  {w \in 1..Len(WordsOf(description)) : WordsOf(description)[w] \in DOMAIN mappings}

\* a call of categorize has returned a value
CategorizeReturned(st) ==
  st.fn = "categorize" /\ st.pc = "done" /\ st.result.kind = "resolved"

\* C12: when a word of the description has a learned mapping, categorize returns
\* the learned category of the first such word, whatever the static table holds for
\* that word or an earlier one; letter case does not matter.
C12_LearnedFirst ==
  \A p \in Procs :
    CategorizeReturned(proc[p]) /\ LearnedWords(proc[p].description) # {} =>
      proc[p].result.value =
        Str(mappings[WordsOf(proc[p].description)[
              First(LearnedWords(proc[p].description))]].category)

\* categorize has returned a learned category for a description written in mixed
\* case whose earlier word is a static keyword of another category
C12_Witness ==
  \E p \in Procs :
    /\ CategorizeReturned(proc[p])
    /\ proc[p].description # toLowerCase(proc[p].description)
    /\ LearnedWords(proc[p].description) # {}
    /\ First(LearnedWords(proc[p].description)) > 1
    /\ ExactTier(WordsOf(proc[p].description)) # Null
    /\ ExactTier(WordsOf(proc[p].description)) # proc[p].result.value

\* a call of categorizeWithFallback, made after the one that learned, of the
\* description that was learned from, on the store as that call left it
LaterCall(st) ==
  /\ learned # Null
  /\ st.fn = "categorizeWithFallback"
  /\ st.description = learned.description
  /\ calls > learned.call

\* C13: after categorizeWithFallback(d) has resolved through the remote classifier
\* to a category c other than 'other' and has saved it, a later
\* categorizeWithFallback(d) on the store so left returns c from the learned mapping
\* and issues no remote request.
C13_LearningRoundTrip ==
  \A p \in Procs :
    LaterCall(proc[p]) =>
      /\ proc[p].requests = 0
      /\ proc[p].result.kind = "resolved" => proc[p].result = Resolved(Str(learned.category))

\* a later call has returned the category learned for the second word of the
\* description
C13_Witness ==
  \E p \in Procs :
    /\ LaterCall(proc[p])
    /\ proc[p].pc = "done"
    /\ proc[p].result = Resolved(Str(learned.category))
    /\ learned.category # other
    /\ proc[p].i > 1

\* what categorize finds for a description in the store as it is: the learned
\* category of the first word that has one, else what the static tiers give
LocalResult(description) ==
  IF trim(description) = <<>> THEN Null
  ELSE IF LearnedWords(description) # {}
  THEN Str(mappings[WordsOf(description)[First(LearnedWords(description))]].category)
  ELSE StaticCategory[description]

IsCategory(v) == v.kind = "string" /\ v.text \in Category

\* the remote classifier is invoked only when categorize found nothing, useGemini
\* is true and the API key is set; without a request the store is not written
C14_Frame ==
  \A p \in Procs :
    proc[p].fn = "categorizeWithFallback" =>
      /\ proc[p].pc = "fetch" =>
           LocalResult(proc[p].description) = Null /\ proc[p].useGemini /\ apiKey
      /\ proc[p].requests = 0 => proc[p].setCalls = 0 /\ proc[p].writes = 0

\* without a request the local category is returned if there is one, 'other' if not
C14_Return ==
  \A p \in Procs :
    /\ proc[p].fn = "categorizeWithFallback"
    /\ proc[p].result.kind = "resolved"
    /\ proc[p].requests = 0
    => proc[p].result.value =
         IF IsCategory(LocalResult(proc[p].description))
         THEN LocalResult(proc[p].description)
         ELSE Str(other)

\* C14, as claimed: categorizeWithFallback invokes the remote classifier only when
\* categorize returned no category, useGemini is true and credentials are
\* configured; in every other case it issues no request, does not modify the store,
\* and returns the local category if there is one and 'other' otherwise.
C14_RemoteOnlyAsLastResort == C14_Frame /\ C14_Return

\* C24: a call of categorizeWithGemini issues no request when the credentials are
\* missing and exactly one otherwise; no second request follows an HTTP error, a
\* transport exception or an unusable reply
C24_AtMostOneRequest ==
  \A p \in Procs :
    /\ proc[p].requests <= 1
    /\ ~apiKey => proc[p].requests = 0
    /\ proc[p].fn = "categorizeWithGemini" /\ proc[p].pc # "idle" /\ apiKey
         => proc[p].requests = 1

\* a call that is over after one request, which met an HTTP error or a reply
\* that names no category
C24_Witness ==
  \E p \in Procs :
    /\ proc[p].fn = "categorizeWithGemini"
    /\ proc[p].pc = "done"
    /\ proc[p].requests = 1
    /\ \/ proc[p].response = "error"
       \/ proc[p].body.kind = "string" /\ Unparseable(proc[p].body.text)
    /\ proc[p].result = Resolved(Str(other))

\* the positions of the tokens of the description in lower case that do not
\* start with a digit and have 2 characters or more
LearnableTokens(description) ==
  {w \in 1..Len(WordsOf(description)) :
     /\ Len(WordsOf(description)[w]) >= 2
     /\ WordsOf(description)[w][1] \notin Digit}

\* C26: categorizeWithGemini calls setCategoryMapping at most once, and exactly
\* when saveToMappings is true, the category is not 'other' and the description
\* has a token that does not start with a digit and has 2 characters or more; the
\* call is made with the first such token and the category, and is over before
\* the category is returned
C26_LearnsFirstToken ==
  \A p \in Procs :
    /\ proc[p].setCalls <= 1
    /\ proc[p].pc \in {"get", "put"} => proc[p].setCalls = 1 /\ proc[p].result = Pending
    /\ proc[p].setCalls = 1 =>
         /\ LearnableTokens(proc[p].description) # {}
         /\ proc[p].keyword =
              Str(WordsOf(proc[p].description)[First(LearnableTokens(proc[p].description))])
         /\ proc[p].category.kind = "string"
         /\ proc[p].category.text = CategoryOrder[First(Named(proc[p].body.text))]
         /\ proc[p].pc = "done" => proc[p].result = Resolved(proc[p].category)
    /\ GeminiDone(proc[p]) =>
         (proc[p].setCalls = 1 <=>
            /\ proc[p].saveToMappings
            /\ proc[p].result # Resolved(Str(other))
            /\ LearnableTokens(proc[p].description) # {})

\* a call that is over has made the call with the second token of the
\* description, the first one starting with a digit
C26_Witness ==
  \E p \in Procs :
    /\ GeminiDone(proc[p])
    /\ proc[p].setCalls = 1
    /\ First(LearnableTokens(proc[p].description)) > 1
    /\ proc[p].keyword = Str(WordsOf(proc[p].description)[2])
    /\ proc[p].result = Resolved(proc[p].category)

\* the call of setCategoryMapping that the call made has failed
UpsertFailed(st) == st.pc = "done" /\ st.setCalls = 1 /\ st.writes = 0

\* C27: when the upsert of the learned mapping fails during categorizeWithGemini,
\* the call still resolves to the category read from the reply, which is not
\* 'other', and does not reject
C27_UpsertFailureAbsorbed ==
  \A p \in Procs :
    UpsertFailed(proc[p]) =>
      /\ proc[p].result = Resolved(Str(CategoryOrder[First(Named(proc[p].body.text))]))
      /\ proc[p].result # Resolved(Str(other))
      /\ proc[p].result # Rejected

\* a call whose upsert failed has resolved to the category of the reply, bills
C27_Witness ==
  \E p \in Procs :
    /\ UpsertFailed(proc[p])
    /\ proc[p].existing = Null
    /\ toLowerCase(proc[p].keyword.text) \notin DOMAIN mappings
    /\ proc[p].result = Resolved(Str(bills))

(***************************************************************************)
(* Properties of the store (SpecStore, SpecOverlap)                        *)
(***************************************************************************)
\* the write of the call of setCategoryMapping of caller p succeeds in this step
Upserts(p) ==
  /\ proc[p].pc = "put"
  /\ proc'[p].pc = "done"
  /\ proc'[p].writes = proc[p].writes + 1

\* the store after setCategoryMapping(keyword, category) on the store mappings
Upserted(keyword, category) ==
  LET key == toLowerCase(keyword)
  IN  [k \in DOMAIN mappings \cup {key} |->
         IF k # key THEN mappings[k]
         ELSE IF key \in DOMAIN mappings
         THEN [category |-> category, count |-> mappings[key].count + 1]
         ELSE [category |-> category, count |-> 1]]

\* every mapping has a count of 1 or more, which is the number of upserts of its key
CountsUpserts ==
  \A k \in DOMAIN mappings :
    /\ mappings[k].count >= 1
    /\ k \in DOMAIN upserts
    /\ mappings[k].count = upserts[k]

\* an upsert creates the mapping of the key in lower case with count 1, or sets the
\* category and adds 1 to the count, and leaves the other mappings alone; no step
\* removes a mapping or lowers a count
UpsertStep ==
  /\ \A p \in Procs :
       Upserts(p) => mappings' = Upserted(proc[p].keyword.text, proc[p].category.text)
  /\ \A k \in DOMAIN mappings :
       k \in DOMAIN mappings' /\ mappings'[k].count >= mappings[k].count

\* C28: setCategoryMapping(k, c), run sequentially, creates the mapping of
\* lowercase(k) with category c and count 1 if there is none, and otherwise sets
\* the category to c and adds 1 to the count; other mappings are unchanged.  After
\* n upserts of a keyword its count is n; a count is always 1 or more and never
\* decreases, under setCategoryMapping and updateCategoryMapping
C28_SequentialUpserts == []CountsUpserts /\ [][UpsertStep]_vars

\* a key upserted twice, next to another key
C28_Witness ==
  /\ AllIdle
  /\ DOMAIN mappings = {<<"k", "o", "p", "i">>, <<"t", "e", "h">>}
  /\ mappings[<<"k", "o", "p", "i">>].count = 2
  /\ upserts[<<"k", "o", "p", "i">>] = 2

\* C29: when calls of setCategoryMapping for one keyword interleave at their
\* awaits, every one that writes is still counted: once the calls are over, the
\* count of the key is the number of upserts of it (2 for two calls on a new
\* keyword)
C29_NoLostUpdate ==
  (\A p \in Procs : proc[p].pc \in {"idle", "done"}) =>
    \A k \in DOMAIN upserts : k \in DOMAIN mappings /\ mappings[k].count = upserts[k]

\* a write by a call of categorizeWithFallback creates a mapping with count 1 for
\* a key that had no mapping and is no keyword of the static table, and changes
\* no other mapping
FallbackWrite ==
  \A p \in Procs :
    proc[p].fn = "categorizeWithFallback" /\ Upserts(p) =>
      LET key == toLowerCase(proc[p].keyword.text)
      IN  /\ key \notin DOMAIN mappings
          /\ ~HasOwn(key)
          /\ DOMAIN mappings' = DOMAIN mappings \cup {key}
          /\ mappings'[key].count = 1
          /\ \A k \in DOMAIN mappings : mappings'[k] = mappings[k]

\* C30: in calls of categorizeWithFallback that do not overlap, no mapping is
\* written for a key of the static table or for a key that has a learned mapping:
\* every mapping written is new, with count 1, and the category of no learned
\* mapping is overwritten
C30_FallbackOnlyCreates == [][FallbackWrite]_vars

\* categorizeWithFallback has just added a mapping to a store that held another
C30_Witness ==
  /\ learned # Null
  /\ LearnableTokens(learned.description) # {}
  /\ LET key == WordsOf(learned.description)[First(LearnableTokens(learned.description))]
     IN  /\ key \in DOMAIN mappings
         /\ mappings[key] = [category |-> learned.category, count |-> 1]
         /\ DOMAIN mappings # {key}

(***************************************************************************)
(* Properties of categorize against categorizeFromDefaults (SpecPhrase)    *)
(***************************************************************************)
\* C17: when the store holds no mapping for any word of the description,
\* categorize returns what categorizeFromDefaults returns
C17_SameAsDefaults ==
  \A p \in Procs :
    /\ CategorizeReturned(proc[p])
    /\ LearnedWords(proc[p].description) = {}
    /\ returned # Pending
    => proc[p].result.value = returned.value

\* both have returned a category that the partial match decided, against a store
\* that holds a mapping, though for no word of the phrase
C17_Witness ==
  \E p \in Procs :
    /\ CategorizeReturned(proc[p])
    /\ LearnedWords(proc[p].description) = {}
    /\ mappings # <<>>
    /\ returned # Pending
    /\ proc[p].result.value = returned.value
    /\ returned.value = Str(transport)
    /\ proc[p].description = <<"s", "p", "o", "t", "i", "f", "i", " ", "g", "r", "a", "b", "c", "a", "r">>

\* the words of the phrase that are keywords of the static table
ExactWords(words) == {w \in 1..Len(words) : HasOwn(words[w])}

\* the entries of the static table that contain the word or are contained in it
SubstringEntries(word) ==
  {i \in Entries : SubstringHit(word, DEFAULT_KEYWORDS[i].keyword)}

SubstringWords(words) == {w \in 1..Len(words) : SubstringEntries(words[w]) # {}}

\* the entries of the static table that the word is a near miss of
FuzzyEntries(word) ==
  {i \in Entries : /\ Len(word) >= 3
                   /\ AtLeast(stringSimilarity(word, DEFAULT_KEYWORDS[i].keyword),
                              FuzzyThreshold)}

FuzzyWords(words) == {w \in 1..Len(words) : FuzzyEntries(words[w]) # {}}

CategoriesOf(entries) == {Str(DEFAULT_KEYWORDS[i].category) : i \in entries}

\* what the tiers allow categorize to return for the words: the category of the
\* earliest word of the strongest tier that has a word
TierResults(words) ==
  IF ExactWords(words) # {}
  THEN CategoriesOf({i \in Entries :
                       DEFAULT_KEYWORDS[i].keyword = words[First(ExactWords(words))]})
  ELSE IF SubstringWords(words) # {}
  THEN CategoriesOf(SubstringEntries(words[First(SubstringWords(words))]))
  ELSE IF FuzzyWords(words) # {}
  THEN CategoriesOf(FuzzyEntries(words[First(FuzzyWords(words))]))
  ELSE {Null}

NothingLearned(st) ==
  /\ CategorizeReturned(st)
  /\ trim(st.description) # <<>>
  /\ LearnedWords(st.description) = {}

\* C18: with no learned mapping for any word, categorize resolves by tier across
\* the whole phrase: an exact match of any word beats a substring match of any
\* word, which beats a fuzzy match of any word, and within a tier the earliest
\* word wins
C18_TierThenWordOrder ==
  \A p \in Procs :
    NothingLearned(proc[p]) =>
      proc[p].result.value \in TierResults(WordsOf(proc[p].description))

\* the same for the phrases none of whose words is a property that the static
\* table inherits
C18_OwnKeywordsOnly ==
  \A p \in Procs :
    /\ NothingLearned(proc[p])
    /\ \A w \in 1..Len(WordsOf(proc[p].description)) :
         WordsOf(proc[p].description)[w] \notin PrototypeKeys
    => proc[p].result.value \in TierResults(WordsOf(proc[p].description))

\* the entries of the static table whose keyword contains the word or is contained
\* in it, both being of 3 characters or more
Qualifying(word) ==
  {i \in Entries :
     /\ \/ includes(word, DEFAULT_KEYWORDS[i].keyword)
        \/ includes(DEFAULT_KEYWORDS[i].keyword, word)
     /\ Len(word) >= 3
     /\ Len(DEFAULT_KEYWORDS[i].keyword) >= 3}

QualifyingWords(words) == {w \in 1..Len(words) : Qualifying(words[w]) # {}}

\* categorize has returned after its substring pass was reached: no word has a
\* learned mapping and no word is in the static table
SubstringPassReached(st) ==
  /\ NothingLearned(st)
  /\ \A w \in 1..Len(WordsOf(st.description)) :
       ~InDefaultKeywords(WordsOf(st.description)[w])

\* C22: the substring pass accepts a word and a keyword only if one contains the
\* other and both have 3 characters or more; it returns the category of the
\* earliest entry of the static table that qualifies for the first word that has
\* one, and leaves the result to the fuzzy pass when no word has one
C22_SubstringPass ==
  \A p \in Procs :
    SubstringPassReached(proc[p]) =>
      LET words == WordsOf(proc[p].description)
      IN  IF QualifyingWords(words) # {}
          THEN proc[p].result.value =
                 Str(DEFAULT_KEYWORDS[First(Qualifying(words[First(QualifyingWords(words))]))].category)
          ELSE proc[p].result.value \in
                 {Null} \cup UNION {CategoriesOf(FuzzyEntries(words[w])) : w \in 1..Len(words)}

\* the category of the earliest of several qualifying entries of different
\* categories is returned
C22_Witness ==
  \E p \in Procs :
    /\ SubstringPassReached(proc[p])
    /\ QualifyingWords(WordsOf(proc[p].description)) # {}
    /\ LET words == WordsOf(proc[p].description)
           entries == Qualifying(words[First(QualifyingWords(words))])
       IN  /\ Cardinality(CategoriesOf(entries)) > 1
           /\ proc[p].result.value = Str(DEFAULT_KEYWORDS[First(entries)].category)

\* the entries of the static table whose keyword has similarity 0.7 or more to the word
Near(word) ==
  {i \in Entries :
     AtLeast(stringSimilarity(word, DEFAULT_KEYWORDS[i].keyword), [num |-> 7, den |-> 10])}

\* the words of 3 characters or more
LongWords(words) == {w \in 1..Len(words) : Len(words[w]) >= 3}

\* C23: past the learned and the exact pass, a category is returned only on
\* account of a word of 3 characters or more, which contains a keyword, is
\* contained in one, or has similarity 0.7 or more to one; a description of
\* shorter words only yields null
C23_ShortWordsNeverMatch ==
  \A p \in Procs :
    SubstringPassReached(proc[p]) =>
      LET words == WordsOf(proc[p].description)
      IN  /\ LongWords(words) = {} => proc[p].result.value = Null
          /\ proc[p].result.value # Null =>
               \E w \in LongWords(words) :
                 proc[p].result.value \in CategoriesOf(Qualifying(words[w]) \cup Near(words[w]))
          /\ (\A w \in LongWords(words) : Qualifying(words[w]) \cup Near(words[w]) = {})
               => proc[p].result.value = Null

\* null for a description of short words, one of which a keyword contains
C23_Witness ==
  \E p \in Procs :
    /\ SubstringPassReached(proc[p])
    /\ LongWords(WordsOf(proc[p].description)) = {}
    /\ \E w \in 1..Len(WordsOf(proc[p].description)), i \in Entries :
         includes(DEFAULT_KEYWORDS[i].keyword, WordsOf(proc[p].description)[w])
    /\ proc[p].result.value = Null

(***************************************************************************)
(* Properties of the fuzzy matching (SpecFuzzy)                            *)
(***************************************************************************)
\* the strings one single-character insertion, deletion or substitution away from s
Edits(s) ==
  { SubSeq(s, 1, i - 1) \o DropTo(s, i + 1) : i \in 1..Len(s) }
  \cup { SubSeq(s, 1, i - 1) \o <<c>> \o DropTo(s, i + 1) : i \in 1..Len(s), c \in LevAlphabet }
  \cup { SubSeq(s, 1, i) \o <<c>> \o DropTo(s, i + 1) : i \in 0..Len(s), c \in LevAlphabet }

\* the strings at most k edits away from a
RECURSIVE Within(_, _)
Within(a, k) ==
  IF k = 0 THEN {a}
  ELSE LET near == Within(a, k - 1) IN near \cup UNION { Edits(s) : s \in near }

EditBalls == [a \in LevStrings |-> [k \in 0..MaxLevLen |-> Within(a, k)]]

\* the least number of edits that turn a into b
MinEdits(a, b) == First({k \in 0..MaxLevLen : b \in EditBalls[a][k]})

LevenshteinReturned ==
  args.fn = "levenshteinDistance" /\ returned # Pending

\* C15: levenshteinDistance(a, b) is the least number of single-character
\* insertions, deletions and substitutions that turn a into b; so it is 0 for
\* a = b, the length of a for b = '', and the same for (b, a)
C15_MinimumEdits ==
  LevenshteinReturned =>
    /\ returned.value = MinEdits(args.str1, args.str2)
    /\ (args.str1 = args.str2 => returned.value = 0)
    /\ (args.str2 = <<>> => returned.value = Len(args.str1))
    /\ returned.value = levenshteinDistance(args.str2, args.str1)

\* a pair of different lengths that needs a substitution as well as an insertion
C15_Witness ==
  /\ LevenshteinReturned
  /\ args.str1 = <<"a", "b">> /\ args.str2 = <<"b", "a", "a">>
  /\ returned.value = 2

FuzzyReturned == args.fn = "findFuzzyMatch" /\ returned # Pending

\* the similarity of the input and the i-th keyword of the list
Similarity(i) == stringSimilarity(args.input, args.keywords[i])

\* the positions of the keywords no less similar to the input than any other
MostSimilar ==
  { i \in 1..Len(args.keywords) :
      \A j \in 1..Len(args.keywords) : AtLeast(Similarity(i), Similarity(j)) }

\* C16: findFuzzyMatch returns null exactly when no keyword has similarity >=
\* threshold; otherwise it returns the first of the keywords of greatest
\* similarity, with that similarity
C16_FirstOfTheBest ==
  FuzzyReturned =>
    /\ returned.value = Null
         <=> \A i \in 1..Len(args.keywords) : ~AtLeast(Similarity(i), args.threshold)
    /\ returned.value # Null =>
         /\ returned.value.keyword = args.keywords[First(MostSimilar)]
         /\ returned.value.similarity = Similarity(First(MostSimilar))

\* two different keywords tie for the greatest similarity, after a keyword
\* below the threshold, and the earlier of the two is returned
C16_Witness ==
  /\ FuzzyReturned
  /\ returned.value # Null
  /\ Cardinality({args.keywords[i] : i \in MostSimilar}) > 1
  /\ First(MostSimilar) > 1
  /\ ~AtLeast(Similarity(1), args.threshold)
  /\ returned.value.keyword = args.keywords[First(MostSimilar)]

(***************************************************************************)
(* Properties of parseInput (SpecInput)                                    *)
(***************************************************************************)
\* the text parseInput works on, and the token its extractors select in it
Trimmed == trim(raw)
Chosen == FindAmount(Trimmed)

Submitted == parsed # Pending /\ raw # NonString

NoExtractorMatches(s) ==
  \A at \in 1..Len(s) :
    /\ jutaPattern(s, at) = 0
    /\ ribuPattern(s, at) = 0
    /\ thousandSepPattern(s, at) = 0
    /\ plainPattern(s, at) = 0

\* C5: parseInput returns null and never throws: when no amount extractor matches
\* anywhere in the input (in particular when the input has no digit), when the
\* parsed amount is null or <= 0, when nothing is left as description, and for an
\* empty, whitespace-only or non-string input.
C5_NullOnFailure ==
  parsed # Pending =>
    /\ parsed = Null \/ parsed.kind = "parsed"
    /\ raw = NonString => parsed = Null
    /\ Submitted /\ Trimmed = <<>> => parsed = Null
    /\ Submitted /\ NoExtractorMatches(Trimmed) => parsed = Null
    /\ Submitted /\ (\A i \in 1..Len(raw) : raw[i] \notin Digit) => parsed = Null
    /\ Submitted /\ parseAmount(Chosen.str).kind = "null" => parsed = Null
    /\ Submitted /\ parseAmount(Chosen.str).kind = "num"
         /\ parseAmount(Chosen.str).num = <<>> => parsed = Null
    /\ Submitted /\ CleanDescription(Trimmed, Chosen.str) = <<>> => parsed = Null

\* an amount was found and is positive, but nothing is left as description ("15rb")
C5_Witness ==
  /\ Submitted
  /\ parsed = Null
  /\ Chosen.found
  /\ IsPositive(parseAmount(Chosen.str))
  /\ CleanDescription(Trimmed, Chosen.str) = <<>>

\* C6: the amount of every result of parseInput is an integer greater than 0.
C6_AmountPositiveInteger ==
  parsed.kind = "parsed" =>
    /\ parsed.amount.kind = "num"
    /\ parsed.amount.den = 1
    /\ parsed.amount.num # <<>>

\* a result whose amount token carries a fraction finer than its multiplier, which
\* only Math.round makes an integer ("a15,0005rb")
C6_Witness ==
  /\ parsed.kind = "parsed"
  /\ ribuMatch(toLowerCase(Chosen.str)).ok
  /\ Len(ribuMatch(toLowerCase(Chosen.str)).frac) > 3
  /\ ribuMatch(toLowerCase(Chosen.str)).frac[Len(ribuMatch(toLowerCase(Chosen.str)).frac)] = "5"

\* C7: the description of a result does not contain the matched amount token.
C7_DescriptionOmitsToken ==
  parsed.kind = "parsed" => ~includes(parsed.description, Chosen.str)

\* C8: the description of a result is non-empty, has no whitespace at either end
\* and no run of two whitespace characters, and neither begins nor ends with a
\* comma, period, hyphen or colon.
C8_DescriptionClean ==
  parsed.kind = "parsed" =>
    LET d == parsed.description
    IN  /\ d # <<>>
        /\ d[1] \notin Space /\ d[Len(d)] \notin Space
        /\ \A i \in 1..(Len(d) - 1) : ~(d[i] \in Space /\ d[i + 1] \in Space)
        /\ d[1] \notin Punct /\ d[Len(d)] \notin Punct

\* the length of the token of extractor k (million suffix, thousand suffix,
\* grouped separators, bare digits) that starts at position at of s, 0 for none
TokenAt(k, s, at) ==
  CASE k = 1 -> jutaPattern(s, at)
    [] k = 2 -> ribuPattern(s, at)
    [] k = 3 -> thousandSepPattern(s, at)
    [] k = 4 -> plainPattern(s, at)

\* where the tokens of extractor k start in s
TokenStarts(k, s) == {at \in 1..Len(s) : TokenAt(k, s, at) > 0}

\* the extractors that have a token somewhere in s
Matching(s) == {k \in 1..4 : TokenStarts(k, s) # {}}

\* the leftmost token of the extractor of highest priority among those
PriorityToken(s) ==
  LET k == First(Matching(s))
      at == First(TokenStarts(k, s))
  IN  SubSeq(s, at, at + TokenAt(k, s, at) - 1)

\* C19: the amount token is chosen by extractor priority before position: it is
\* the leftmost token of the first of million suffix, thousand suffix, grouped
\* separators and bare digits that has a token anywhere in the input, and no
\* other token is tried when its amount is refused
C19_PriorityBeforePosition ==
  Submitted /\ Matching(Trimmed) # {} =>
    /\ parsed.kind = "parsed" => parsed.amount = parseAmount(PriorityToken(Trimmed))
    /\ ~IsPositive(parseAmount(PriorityToken(Trimmed))) => parsed = Null

\* a result whose amount is that of a million-suffix token that comes after a
\* thousand-suffix token and after a bare number
C19_Witness ==
  /\ Submitted
  /\ parsed.kind = "parsed"
  /\ First(Matching(Trimmed)) = 1
  /\ TokenStarts(2, Trimmed) # {}
  /\ First(TokenStarts(2, Trimmed)) < First(TokenStarts(1, Trimmed))
  /\ parsed.amount = parseAmount(PriorityToken(Trimmed))
  /\ parsed.amount # parseAmount(SubSeq(Trimmed, First(TokenStarts(2, Trimmed)),
         First(TokenStarts(2, Trimmed))
           + TokenAt(2, Trimmed, First(TokenStarts(2, Trimmed))) - 1))

\* s without the n characters that start at position at
RemoveAt(s, at, n) == SubSeq(s, 1, at - 1) \o DropTo(s, at + n)

\* C20: the description is the input without the occurrence of the amount token
\* that the extractor matched, at the position of the match, with whitespace
\* collapsed, punctuation stripped from both ends, and trimmed; no other
\* character of the input is removed
C20_RemovesTheMatchedOccurrence ==
  parsed.kind = "parsed" =>
    parsed.description =
      trim(StripPunct(CollapseSpaces(trim(RemoveAt(Trimmed, Chosen.at, Len(Chosen.str))))))

Letter == Upper \cup Lower

\* where the maximal runs of digits of s start
DigitRuns(s) == {i \in 1..Len(s) : s[i] \in Digit /\ (i = 1 \/ s[i - 1] \notin Digit)}

\* the run of n digits at position i of s has a letter directly before or after it
NextToLetter(s, i, n) ==
  \/ i > 1 /\ s[i - 1] \in Letter
  \/ i + n <= Len(s) /\ s[i + n] \in Letter

\* s has no suffix token and no grouped-separator token, and each of its digits is
\* a single digit or belongs to a run of digits that is next to a letter
OnlyStrayDigits(s) ==
  /\ \A k \in 1..3 : TokenStarts(k, s) = {}
  /\ \A i \in DigitRuns(s) :
       LET n == RunLen(DropTo(s, i), Digit) IN n = 1 \/ NextToLetter(s, i, n)

\* C21: a run of digits is taken as a bare amount only when it has 2 digits or
\* more and a word boundary on both sides; an input with no suffix token and no
\* grouped-separator token whose digits are single digits or runs next to
\* letters yields null
C21_BareNumberNeedsBoundaries ==
  Submitted =>
    /\ OnlyStrayDigits(raw) => parsed = Null
    /\ parsed.kind = "parsed" /\ (\A k \in 1..3 : TokenStarts(k, Trimmed) = {}) =>
         /\ Chosen.at \in DigitRuns(Trimmed)
         /\ Len(Chosen.str) = RunLen(DropTo(Trimmed, Chosen.at), Digit)
         /\ Len(Chosen.str) >= 2
         /\ Chosen.at = 1 \/ Trimmed[Chosen.at - 1] \notin WordChar
         /\ \/ Chosen.at + Len(Chosen.str) > Len(Trimmed)
            \/ Trimmed[Chosen.at + Len(Chosen.str)] \notin WordChar

\* null for an input with a run of two digits next to a letter and other text
C21_Witness ==
  /\ Submitted
  /\ OnlyStrayDigits(raw)
  /\ \E i \in DigitRuns(raw) : RunLen(DropTo(raw, i), Digit) >= 2
  /\ \E i \in 1..Len(raw) : raw[i] \in Space
  /\ parsed = Null

(***************************************************************************)
(* Properties of parseAmount (SpecAmount)                                  *)
(***************************************************************************)
Cleaned == toLowerCase(trim(token))

Called == amount # Pending /\ token # NonString

\* the multiplier is 10^ScaleDigits(multiplier)
ScaleDigits(multiplier) == IF multiplier = 1000 THEN 3 ELSE 6

\* the amount the token W[.,]F<suffix> stands for, less W * multiplier, rounded
\* half up: floor(F * multiplier / 10^len(F) + 1/2)
FractionHalfUp(frac, multiplier) ==
  LET k == ScaleDigits(multiplier)
      f == parseIntDigits(frac)
  IN  IF Len(frac) <= k THEN f * Pow10(k - Len(frac))
      ELSE (2 * f + Pow10(Len(frac) - k)) \div (2 * Pow10(Len(frac) - k))

\* v is an integer nearest to W * multiplier + F * multiplier / 10^len(F)
IsNearest(v, m, multiplier) ==
  LET k == ScaleDigits(multiplier)
      f == parseIntDigits(m.frac)
      a == v - parseIntDigits(m.whole) * multiplier
      d == Pow10(Len(m.frac) - k)
  IN  IF Len(m.frac) <= k THEN a = f * Pow10(k - Len(m.frac))
      ELSE 2 * (a * d - f) <= d /\ 2 * (f - a * d) <= d

\* C9, as claimed: for a token W<s> or W[.,]F<s>, parseAmount returns
\* round((W + F / 10^len(F)) * M), M = 1,000,000 for jt and juta, 1,000 for rb,
\* ribu and k, with round the rounding of Math.round (a tie goes up).
C9_SuffixAmountRounded ==
  Called =>
    /\ jutaMatch(Cleaned).ok =>
         amount = Integer(LimbsOf(parseIntDigits(jutaMatch(Cleaned).whole) * 1000000
                                    + FractionHalfUp(jutaMatch(Cleaned).frac, 1000000)))
    /\ ribuMatch(Cleaned).ok =>
         amount = Integer(LimbsOf(parseIntDigits(ribuMatch(Cleaned).whole) * 1000
                                    + FractionHalfUp(ribuMatch(Cleaned).frac, 1000)))

\* C9, amended: for such a token parseAmount returns an integer nearest to
\* (W + F / 10^len(F)) * M, the fraction scaled by its digit count; when that value
\* lies exactly halfway between two integers either of them may be returned.  In
\* particular N<s> yields exactly N * M.
C9_SuffixAmountNearest ==
  Called =>
    /\ jutaMatch(Cleaned).ok =>
         /\ IsInteger(amount)
         /\ IsNearest(IntOf(amount.num), jutaMatch(Cleaned), 1000000)
    /\ ribuMatch(Cleaned).ok =>
         /\ IsInteger(amount)
         /\ IsNearest(IntOf(amount.num), ribuMatch(Cleaned), 1000)

\* a token whose value lies halfway between two integers, and for which the lower
\* one is returned ("0.5005rb" gives 500)
C9_Witness ==
  /\ Called
  /\ ribuMatch(Cleaned).ok
  /\ Len(ribuMatch(Cleaned).frac) = 4
  /\ ribuMatch(Cleaned).frac[4] = "5"
  /\ amount = Integer(LimbsOf(parseIntDigits(ribuMatch(Cleaned).whole) * 1000
                                + parseIntDigits(ribuMatch(Cleaned).frac) \div 10))

\* t is 1 to 3 digits followed by one or more groups of a separator and 3 digits
IsGroupedToken(t) ==
  /\ Len(t) > 4
  /\ Len(t) % 4 # 0
  /\ \A i \in 1..Len(t) :
       IF i > (Len(t) % 4) /\ (i - (Len(t) % 4)) % 4 = 1
       THEN t[i] \in Separator
       ELSE t[i] \in Digit

\* C10: for 1 to 3 digits followed by groups of one separator and exactly 3
\* digits, parseAmount returns the integer read from the digits alone, whichever of
\* '.' and ',' separates them.
C10_GroupedSeparators ==
  Called /\ IsGroupedToken(Cleaned) =>
    amount = Integer(LimbsOf(parseIntDigits(SelectSeq(Cleaned, LAMBDA c : c \in Digit))))

\* a token of two groups separated by commas has been read ("1,500,000")
C10_Witness ==
  /\ Called
  /\ IsGroupedToken(Cleaned)
  /\ Len(Cleaned) > 8
  /\ \A i \in 1..Len(Cleaned) : Cleaned[i] # "."
  /\ amount = Integer(LimbsOf(parseIntDigits(SelectSeq(Cleaned, LAMBDA c : c \in Digit))))

\* C11, as claimed: whenever parseAmount returns a value rather than null, the
\* value is an integer, for every token (digits, a separator and one or two digits
\* included, such as "15.5").
C11_AmountIsInteger ==
  Called /\ amount.kind = "num" => amount.den = 1

====
